---- MODULE Spec2Model ----
(***************************************************************************)
(* Model of the offscreen document of the realtime meeting translator     *)
(* (src/unnamed/part_002, the audio worklet src/unnamed/part_001): the     *)
(* capture controller, the transport session and the PCM framer.          *)
(*                                                                         *)
(* JavaScript runs handlers to completion; a handler is interrupted only   *)
(* at an await.  Every action below is one such run-to-completion segment: *)
(* from an event (or the resolution of an awaited promise) to the next     *)
(* await or to the handler's end.                                          *)
(*                                                                         *)
(* Identities.  The i-th OFFSCREEN_START invocation is start i.  The media *)
(* stream it acquires is stream i, the AudioContext it creates context i,  *)
(* the source/destination nodes it creates node i, the worklet node it     *)
(* creates processor i.  Sockets are numbered in creation order.  0 stands *)
(* for null/undefined.                                                     *)
(***************************************************************************)
EXTENDS Integers, Sequences, FiniteSets, TLC

\* ------------------------------------------------------------ bounds
\* OFFSCREEN_START and OFFSCREEN_STOP messages received, in total
MaxRequests == 2
\* OFFSCREEN_STOP messages received within a single capture session
MaxStops == 2
\* audio blocks accepted by enqueuePcm in the capture lifecycle
MaxBlocks == 2
\* audio blocks accepted by enqueuePcm on a connection that stays open
MaxFramerBlocks == 5
\* recorder blobs whose arrayBuffer() read is outstanding at one time
MaxReads == 1
\* the same, within a single capture session
MaxSessionReads == 2
\* messages delivered to ws.onmessage in a capture session
MaxEvents == 2
\* messages delivered to ws.onmessage when every shape of payload is tried
MaxReconciled == 1
\* words carried by one recognition event
MaxWords == 3
\* audio blocks converted when every shape of block is tried
MaxConverted == 1
\* samples of a block, when every sequence of sample values is tried
MaxSamples == 1
\* samples of a block, when only its length varies
MaxBlockSamples == 16
MaxPosted == 3
MaxOverlayMessages == 3
MaxClicks == 1
MaxStartRequests == 2

\* ------------------------------------------------------------ program constants
PCM_TARGET_CHUNK_BYTES == 3200
TARGET_SAMPLE_RATE == 16000

\* byte length of one converted worklet block in the capture lifecycle
BlockBytes == {1600}
\* the block lengths the framer is exercised with on an open connection:
\* 128 samples at 48 kHz (86 bytes) and at 16 kHz (256), half a chunk, a
\* chunk, more than two chunks, and an empty block
FramerBlockBytes == {0, 86, 256, 1600, 3200, 7000}

VARIABLES
  \* ---- the module's globals (part_002 lines 3-18)
  mediaStream, ws, keepAliveTimer, triedOpusFallback, audioContext,
  sourceNode, processorNode, destinationNode, currentMode, mediaRecorder,
  pcmQueue, pcmBytesPending,
  \* ---- platform objects the globals refer to
  sockets,      \* sequence of [state, mode]: every WebSocket created
  liveStreams,  \* streams whose tracks have not been stopped
  contexts,     \* context id -> "none" | "suspended" | "running" | "closed"
  modules,      \* contexts in which worklet.js has been loaded
  edges,        \* <<s, p>>: source node s is connected to processor p
  draining,     \* processors cut off from audio whose last posted block may
                \* still be delivered
  blobReads,    \* recorder handlers awaiting arrayBuffer(), in the order the
                \* blobs were produced: [sock: the socket captured before the
                \* await, late: a blob produced later was transmitted already]
  \* ---- positions of the asynchronous handlers
  starts,       \* per OFFSCREEN_START invocation: [pc, ctx, src, proc]
  stops,        \* per suspended stopAll: [ctx awaited, fresh: invoked since
                \* the latest OFFSCREEN_START]
  \* ---- observations
  sentPcm,      \* the PCM byte ranges passed to ws.send, in order, merged
  nextByte,     \* bytes accepted by enqueuePcm so far
  nBlocks,      \* blocks accepted by enqueuePcm so far
  stopState,    \* since the latest OFFSCREEN_START: "none", a stop was
                \* "invoked", a stopAll is "done" (ran to its end)
  raceStop,     \* a stop was invoked while a start was pending, no start since
  sentDuringStop, \* an audio frame was transmitted after a stop was invoked
                \* and before the next OFFSCREEN_START
  sessCloses,   \* close events handled since the latest OFFSCREEN_START (0, 1, 2+)
  sessFallbacks,\* fallbacks started since the latest OFFSCREEN_START
  requests,     \* OFFSCREEN_START and OFFSCREEN_STOP messages received
  last,         \* the latest handler run: "stopped" (a stopAll ran to its
                \* end), "block" (an audio block was delivered), "message"
                \* (ws.onmessage), "error" (ws.onerror), "other"
  blobReordered,\* a recorder blob was transmitted after one produced later
  arrived,      \* messages delivered to ws.onmessage so far
  lastEvent,    \* the message handled by the latest ws.onmessage run
  lastOut,      \* what the latest ws.onmessage / ws.onerror run posted
  posted,       \* the transcript messages posted on bgPort, in order:
                \* [type, n: the arrival number of the event]
  threw,        \* the release calls that threw (or whose promise rejected)
                \* in the latest run of a segment of stopAll
  sampleRate,   \* audioContext.sampleRate: the rate of the audio hardware
  conv,         \* the latest block delivered to processorNode.port.onmessage
                \* and what lines 125-126 made of it: [stage, input, down, pcm]
  keepAliveBit, \* the number of KeepAlive messages sent, modulo 2, where
                \* they are counted
  blobSend,     \* the latest ws.send of a recorder blob, where they are
                \* recorded: [produced, sock, state, current, transmitted]
  \* ---- worklet.js (part_001): the audio rendering thread
  channel0,     \* inputs[0][0] of process(): [exists, samples: those in the
                \* buffer the platform reuses for every render quantum], or
                \* NoChannel when the input has no channel
  copies,       \* the samples of the Float32Arrays allocated by process()
  portMessages, \* the messages posted on the worklet's port and not yet
                \* delivered: [buf: 0 for the platform's buffer or an index
                \* of copies, snap: the samples process() was called with]
  \* ---- content.js: the overlay
  translationSegments, \* [text, speaker, timestamp]; a text is the arrival
                \* number of the message it translates
  transcriptEl, \* the children of the element: [placeholder, sections: the
                \* speaker sections [speaker, text], interim: the text of
                \* the element "interim-translation", 0 without one]
  translating,  \* the listener runs suspended at `await translateText`:
                \* [type, n: arrival number, speaker]
  received,     \* DG_TRANSCRIPT_* messages delivered to the listener so far
  now,          \* Date.now()
  clicks,       \* clicks on the Clear button so far
  clearedTexts, \* the texts that were in a speaker section at a click on Clear
  \* ---- background.js
  startRequests,\* per START_TRANSCRIBE message: [pc: the await the listener
                \* is suspended at, offscreen: what became of its
                \* OFFSCREEN_START in the offscreen document]
  statuses      \* the STATUS_UPDATE messages posted, in order: [text, request,
                \* by: the script that posted it]

prog == <<mediaStream, ws, keepAliveTimer, triedOpusFallback, audioContext,
          sourceNode, processorNode, destinationNode, currentMode,
          mediaRecorder, pcmQueue, pcmBytesPending>>
plat == <<sockets, liveStreams, contexts, modules, edges, draining, blobReads>>
ctl  == <<starts, stops>>
bytes == <<sentPcm, nextByte, nBlocks>>
hist == <<stopState, raceStop, sentDuringStop, sessCloses, sessFallbacks, requests>>
msgs == <<arrived, lastEvent, lastOut, posted>>
wkl  == <<channel0, copies, portMessages>>
ovl  == <<translationSegments, transcriptEl, translating, received, now,
          clicks, clearedTexts>>
bkg  == <<startRequests, statuses>>
rest == <<wkl, ovl, bkg>>
aux  == <<conv, sampleRate, keepAliveBit, blobSend, rest>>
vars == <<prog, plat, ctl, bytes, hist, last, blobReordered, msgs, threw, aux>>

Ids == 1..MaxRequests

\* ------------------------------------------------------------ helpers
Min(a, b) == IF a < b THEN a ELSE b

RemoveAt(s, k) == [j \in 1..(Len(s) - 1) |-> IF j < k THEN s[j] ELSE s[j + 1]]

\* `ws && ws.readyState === WebSocket.OPEN`
WsIsOpen == ws # 0 /\ sockets[ws].state = "OPEN"

\* sockets that are CONNECTING or OPEN
Alive == {s \in 1..Len(sockets) : sockets[s].state \in {"CONNECTING", "OPEN"}}

\* WebSocket.close(): a CONNECTING or OPEN socket starts closing, otherwise no-op
SocketClose(socks, s) ==
  IF s # 0 /\ socks[s].state \in {"CONNECTING", "OPEN"}
  THEN [socks EXCEPT ![s].state = "CLOSING"]
  ELSE socks

PendingStarts == {i \in 1..Len(starts) :
                    starts[i].pc \in {"getUserMedia", "resume", "addModule"}}

\* processors that receive audio: fed by a connected source, in a running context
Producing(es, ctxs) ==
  {p \in 1..Len(starts) :
     /\ starts[p].proc # 0
     /\ ctxs[starts[p].proc] = "running"
     /\ \E e \in es : e[2] = p}

\* ------------------------------------------------------------ the framer
\* A byte range [lo, hi) of the stream of bytes handed to enqueuePcm: the
\* bytes are identified by their position in that stream.
Range(lo, hi) == [lo |-> lo, hi |-> hi]
ByteLength(r) == r.hi - r.lo

\* A chunk shorter than PCM_TARGET_CHUNK_BYTES of queued bytes keeps the
\* zero bytes `new Uint8Array` was created with: marked by a range at -1.
Padding == Range(-1, -1)

\* the stream `stream` followed by the range r, adjacent ranges merged
AppendMerged(stream, r) ==
  IF r # Padding /\ r.lo = r.hi THEN stream
  ELSE IF Len(stream) > 0 /\ r # Padding /\ stream[Len(stream)].hi = r.lo
       THEN [stream EXCEPT ![Len(stream)].hi = r.hi]
       ELSE Append(stream, r)

RECURSIVE Concat(_, _)
Concat(stream, rs) ==
  IF rs = <<>> THEN stream ELSE Concat(AppendMerged(stream, Head(rs)), Tail(rs))

\* a framer that drops the head buffer after every copy, consumed or not
AfterTakeShift(queue, take) == Tail(queue)

\* a framer that leaves a head it has copied only part of as it was
AfterTakeKeepsHead(queue, take) ==
  IF take < ByteLength(queue[1]) THEN queue ELSE Tail(queue)

\* enqueuePcm lines 317-322: the queue after `take` bytes of its head were copied
AfterTake(queue, take) ==
  IF take < ByteLength(queue[1])
  THEN [queue EXCEPT ![1] = Range(queue[1].lo + take, queue[1].hi)]
  ELSE Tail(queue)

\* enqueuePcm lines 311-323: fill one chunk from the head of the queue
RECURSIVE FillChunk(_, _, _)
FillChunk(queue, toSend, out) ==
  IF toSend > 0 /\ Len(queue) > 0
  THEN LET take == Min(toSend, ByteLength(queue[1]))
       IN FillChunk(AfterTake(queue, take), toSend - take,
                    Append(out, Range(queue[1].lo, queue[1].lo + take)))
  ELSE [out |-> IF toSend > 0 THEN Append(out, Padding) ELSE out,
        queue |-> queue]

\* the queued bytes copied into a chunk: `offset` at the end of lines 311-323
RECURSIVE ChunkBytes(_)
ChunkBytes(out) ==
  IF out = <<>> THEN 0
  ELSE (IF Head(out) = Padding THEN 0 ELSE ByteLength(Head(out))) + ChunkBytes(Tail(out))

\* a drain that sends one chunk per call: `if` where line 307 has `while`
DrainLoopOnce(queue, pending, chunks) ==
  IF pending >= PCM_TARGET_CHUNK_BYTES
  THEN LET f == FillChunk(queue, PCM_TARGET_CHUNK_BYTES, <<>>)
       IN [queue |-> f.queue, pending |-> pending - PCM_TARGET_CHUNK_BYTES,
           chunks |-> Append(chunks, f.out)]
  ELSE [queue |-> queue, pending |-> pending, chunks |-> chunks]

\* a drain loop that sends whatever is pending, a full chunk or not
RECURSIVE DrainLoopWhileBytes(_, _, _)
DrainLoopWhileBytes(queue, pending, chunks) ==
  IF pending > 0
  THEN LET f == FillChunk(queue, PCM_TARGET_CHUNK_BYTES, <<>>)
       IN DrainLoopWhileBytes(f.queue, pending - PCM_TARGET_CHUNK_BYTES,
                              Append(chunks, f.out))
  ELSE [queue |-> queue, pending |-> pending, chunks |-> chunks]

\* enqueuePcm lines 307-327: the drain loop; chunks are collected in order
RECURSIVE DrainLoop(_, _, _)
DrainLoop(queue, pending, chunks) ==
  IF pending >= PCM_TARGET_CHUNK_BYTES
  THEN LET f == FillChunk(queue, PCM_TARGET_CHUNK_BYTES, <<>>)
       IN DrainLoop(f.queue, pending - PCM_TARGET_CHUNK_BYTES,
                    Append(chunks, f.out))
  ELSE [queue |-> queue, pending |-> pending, chunks |-> chunks]

\* enqueuePcm(arrayBuffer) for a buffer of n bytes
EnqueuePcm(queue, pending, n) ==
  DrainLoop(Append(queue, Range(nextByte, nextByte + n)), pending + n, <<>>)

RECURSIVE ConcatChunks(_, _)
ConcatChunks(stream, chunks) ==
  IF chunks = <<>> THEN stream
  ELSE ConcatChunks(Concat(stream, Head(chunks)), Tail(chunks))

\* ------------------------------------------------------------ initial state
\* no message has been handled yet
NoEvent == [kind |-> "none"]

\* no block has been delivered yet
\* content.js lines 489-490 and 547: the element holds the placeholder only
Placeholder == [placeholder |-> TRUE, sections |-> <<>>, interim |-> 0]
NoChannel == [exists |-> FALSE, samples |-> <<>>]
Channel(samples) == [exists |-> TRUE, samples |-> samples]
NoSend == [produced |-> 0, sock |-> 0, state |-> "none", current |-> 0,
           transmitted |-> FALSE]
NoConversion == [stage |-> "none", input |-> <<>>, down |-> <<>>, pcm |-> <<>>]

\* the state of the document once its script has run (lines 3-19)
Loaded ==
  /\ mediaStream = 0 /\ ws = 0 /\ keepAliveTimer = 0
  /\ triedOpusFallback = FALSE /\ audioContext = 0
  /\ sourceNode = 0 /\ processorNode = 0 /\ destinationNode = 0
  /\ currentMode = "pcm" /\ mediaRecorder = "none"
  /\ pcmQueue = <<>> /\ pcmBytesPending = 0
  /\ sockets = <<>> /\ liveStreams = {}
  /\ contexts = [c \in Ids |-> "none"]
  /\ modules = {} /\ edges = {} /\ draining = {} /\ blobReads = <<>>
  /\ starts = <<>> /\ stops = <<>>
  /\ sentPcm = <<>> /\ nextByte = 0 /\ nBlocks = 0
  /\ stopState = "none" /\ raceStop = FALSE /\ sentDuringStop = FALSE
  /\ sessCloses = 0 /\ sessFallbacks = 0 /\ requests = 0
  /\ last = "other"
  /\ blobReordered = FALSE
  /\ arrived = 0 /\ lastEvent = NoEvent /\ lastOut = <<>> /\ posted = <<>>
  /\ threw = {}
  /\ conv = NoConversion /\ keepAliveBit = 0
  /\ blobSend = NoSend
  /\ channel0 = NoChannel /\ copies = <<>> /\ portMessages = <<>>
  /\ translationSegments = <<>> /\ transcriptEl = Placeholder
  /\ translating = {} /\ received = 0 /\ now = 0
  /\ clicks = 0 /\ clearedTexts = {}
  /\ startRequests = <<>> /\ statuses = <<>>

\* the audio hardware runs at 48 kHz
Init == Loaded /\ sampleRate = 48000

\* ------------------------------------------------------------ start
\* a listener that goes on with the pipeline after a failed acquisition
FailedAcquisitionGoesOn(i, st) ==
  [st EXCEPT ![i].pc = IF @ = "getUserMedia" THEN "addModule" ELSE "failed"]

\* a start invocation ends with an exception: startWithStreamId throws and the
\* catch of the listener (lines 92-94) posts the status `Error: ...`; "failed"
\* is the position of an invocation that has posted it and returned
Failed(i, st) == [st EXCEPT ![i].pc = "failed"]

\* onMessage listener, OFFSCREEN_START: startWithStreamId up to the await of
\* getUserMedia.  A new capture session begins.
OffscreenStart(allowed) ==
  /\ last' = "other"
  /\ UNCHANGED <<blobReordered, msgs, threw, aux>>
  /\ allowed
  /\ requests' = requests + 1
  /\ starts' = Append(starts, [pc |-> "getUserMedia", ctx |-> 0, src |-> 0, proc |-> 0])
  /\ stops' = [j \in 1..Len(stops) |-> [stops[j] EXCEPT !.fresh = FALSE]]
  /\ stopState' = "none" /\ raceStop' = FALSE /\ sentDuringStop' = FALSE
  /\ sessCloses' = 0 /\ sessFallbacks' = 0
  /\ UNCHANGED <<prog, plat, bytes>>

\* getUserMedia rejects: startWithStreamId rethrows, the listener posts the error
GetUserMediaReject(i) ==
  /\ last' = "other"
  /\ UNCHANGED <<blobReordered, msgs, threw, aux>>
  /\ starts[i].pc = "getUserMedia"
  /\ starts' = Failed(i, starts)
  /\ UNCHANGED <<prog, plat, stops, bytes, hist>>

\* setupAudioPipeline lines 106-117: from createMediaStreamSource to the await
\* of addModule, with media stream ms and context ac current.  A null context
\* or stream makes createMediaStreamSource throw.
CreateGraph(i, ms, ac) ==
  IF ms = 0 \/ ac = 0
  THEN /\ starts' = Failed(i, starts)
       /\ UNCHANGED <<sourceNode, destinationNode>>
  ELSE /\ sourceNode' = i
       /\ destinationNode' = i
       /\ starts' = [starts EXCEPT ![i].pc = "addModule", ![i].ctx = ac, ![i].src = ac]

\* getUserMedia resolves: mediaStream is assigned and setupAudioPipeline runs
\* to its first await (resume() of a suspended context, else addModule).
\* `suspendable` holds the states a new AudioContext may be created in
\* (TRUE: suspended).
GetUserMediaResolve(i, suspendable) ==
  /\ last' = "other"
  /\ UNCHANGED <<blobReordered, msgs, threw, aux>>
  /\ starts[i].pc = "getUserMedia"
  /\ mediaStream' = i
  /\ liveStreams' = liveStreams \cup {i}
  /\ LET ac == IF audioContext = 0 THEN i ELSE audioContext
     IN /\ audioContext' = ac
        /\ \E suspended \in suspendable :
             /\ (audioContext # 0) =>
                  (suspended <=> contexts[audioContext] = "suspended")
             /\ IF suspended
                THEN /\ contexts' = [contexts EXCEPT ![ac] = "suspended"]
                     /\ starts' = [starts EXCEPT ![i].pc = "resume", ![i].ctx = ac]
                     /\ UNCHANGED <<sourceNode, destinationNode>>
                ELSE /\ contexts' = IF audioContext = 0
                                    THEN [contexts EXCEPT ![ac] = "running"]
                                    ELSE contexts
                     /\ CreateGraph(i, i, ac)
  /\ UNCHANGED <<ws, keepAliveTimer, triedOpusFallback, processorNode, currentMode,
                 mediaRecorder, pcmQueue, pcmBytesPending, sockets, modules, edges,
                 draining, blobReads, stops, bytes, hist>>

\* the await of audioContext.resume() ends (resolved or rejected: line 104
\* swallows the rejection); setupAudioPipeline continues with the globals as
\* they are now
ResumeDone(i) ==
  /\ last' = "other"
  /\ UNCHANGED <<blobReordered, msgs, threw, aux>>
  /\ starts[i].pc = "resume"
  /\ contexts' = [contexts EXCEPT ![starts[i].ctx] =
                    IF @ = "suspended" THEN "running" ELSE @]
  /\ CreateGraph(i, mediaStream, audioContext)
  /\ UNCHANGED <<mediaStream, ws, keepAliveTimer, triedOpusFallback, audioContext,
                 processorNode, currentMode, mediaRecorder, pcmQueue,
                 pcmBytesPending, sockets, liveStreams, modules, edges, draining,
                 blobReads, stops, bytes, hist>>

\* addModule rejects: setupAudioPipeline throws, nothing is released
AddModuleReject(i) ==
  /\ last' = "other"
  /\ UNCHANGED <<blobReordered, msgs, threw, aux>>
  /\ starts[i].pc = "addModule"
  /\ starts' = Failed(i, starts)
  /\ UNCHANGED <<prog, plat, stops, bytes, hist>>

\* openDeepgramPCM: a new socket replaces ws; the previous one is not closed
OpenDeepgramPCM ==
  /\ sockets' = Append(sockets, [state |-> "CONNECTING", mode |-> "pcm"])
  /\ ws' = Len(sockets) + 1
  /\ currentMode' = "pcm"

\* addModule resolves: setupAudioPipeline lines 118-132, then openDeepgramPCM.
\* new AudioWorkletNode throws on a null context and on a context in which the
\* module was not loaded; connect throws across contexts.
AddModuleResolve(i) ==
  /\ last' = "other"
  /\ UNCHANGED <<blobReordered, msgs, threw, aux>>
  /\ starts[i].pc = "addModule"
  /\ modules' = modules \cup {starts[i].ctx}
  /\ IF audioContext = 0 \/ audioContext \notin modules'
     THEN /\ starts' = Failed(i, starts)
          /\ UNCHANGED <<processorNode, edges, sockets, ws, currentMode>>
     ELSE /\ processorNode' = i
          /\ IF starts[sourceNode].src # audioContext
             THEN /\ starts' = [Failed(i, starts) EXCEPT ![i].proc = audioContext]
                  /\ UNCHANGED <<edges, sockets, ws, currentMode>>
             ELSE /\ starts' = [starts EXCEPT ![i].pc = "done", ![i].proc = audioContext]
                  /\ edges' = edges \cup {<<sourceNode, i>>}
                  /\ OpenDeepgramPCM
  /\ UNCHANGED <<mediaStream, keepAliveTimer, triedOpusFallback, audioContext,
                 sourceNode, destinationNode, mediaRecorder, pcmQueue,
                 pcmBytesPending, liveStreams, contexts, draining, blobReads,
                 stops, bytes, hist>>

\* ------------------------------------------------------------ stop
\* stopAll lines 75-77: the disconnect() calls made on nodes that exist.  Only
\* the source node has outgoing connections (lines 131-132).
DisconnectCalls ==
  {c \in {"processorNode.disconnect", "sourceNode.disconnect",
          "destinationNode.disconnect"} :
     \/ c = "processorNode.disconnect" /\ processorNode # 0
     \/ c = "sourceNode.disconnect" /\ sourceNode # 0
     \/ c = "destinationNode.disconnect" /\ destinationNode # 0}

\* the connections left by sourceNode.disconnect()
Disconnected(es) == {e \in es : e[1] # sourceNode}

\* stopAll lines 78-85: the release calls made on objects that exist
ReleaseCalls ==
  {c \in {"audioContext.close", "track.stop", "ws.close", "clearInterval",
          "mediaRecorder.stop"} :
     \/ c = "audioContext.close" /\ audioContext # 0
     \/ c = "track.stop" /\ mediaStream # 0
     \/ c = "ws.close" /\ ws # 0
     \/ c = "clearInterval" /\ keepAliveTimer # 0
     \/ c = "mediaRecorder.stop" /\ mediaRecorder = "recording"}

\* a stopAll without its try/catch blocks: a call that throws ends it
ReleasedIfNoneThrew(call, fails) == fails = {}

\* `try { call } catch {}`: the call takes effect unless it is the one that
\* throws; `fails` are the calls that throw in this run
Released(call, fails) == call \notin fails

\* stopAll lines 79-85, after the await of audioContext.close(): the globals
\* are cleared outside the try blocks, whatever the calls do
StopTail(fails) ==
  /\ audioContext' = 0
  /\ liveStreams' = IF Released("track.stop", fails)
                    THEN liveStreams \ {mediaStream} ELSE liveStreams
  /\ mediaStream' = 0
  /\ sockets' = IF Released("ws.close", fails)
                THEN SocketClose(sockets, ws) ELSE sockets
  /\ ws' = 0
  /\ keepAliveTimer' = 0
  /\ mediaRecorder' = IF mediaRecorder = "recording"
                         /\ Released("mediaRecorder.stop", fails)
                      THEN "stopping" ELSE mediaRecorder

\* onMessage listener, OFFSCREEN_STOP: stopAll up to the await of
\* audioContext.close(); with no context the await yields nothing to wait for
\* and stopAll runs to its end.  `mayThrow` are the calls that may throw.
OffscreenStop(allowed, mayThrow) ==
  /\ allowed
  /\ UNCHANGED <<blobReordered, msgs, aux>>
  /\ requests' = requests + 1
  /\ raceStop' = (raceStop \/ PendingStarts # {})
  /\ \E fails \in SUBSET (mayThrow \cap
                           (DisconnectCalls \cup
                              IF audioContext = 0 THEN ReleaseCalls ELSE {})) :
       /\ threw' = fails
       /\ edges' = IF Released("sourceNode.disconnect", fails)
                   THEN Disconnected(edges) ELSE edges
       /\ IF audioContext = 0
          THEN StopTail(fails)
          ELSE UNCHANGED <<audioContext, liveStreams, mediaStream, sockets, ws,
                           keepAliveTimer, mediaRecorder>>
  /\ draining' = draining \cup (Producing(edges, contexts) \ Producing(edges', contexts))
  /\ IF audioContext = 0
     THEN /\ stopState' = "done"
          /\ last' = "stopped"
          /\ UNCHANGED stops
     ELSE /\ stops' = Append(stops, [ctx |-> audioContext, fresh |-> TRUE])
          /\ stopState' = IF stopState = "done" THEN "done" ELSE "invoked"
          /\ last' = "other"
  /\ UNCHANGED <<triedOpusFallback, sourceNode, processorNode, destinationNode,
                 currentMode, pcmQueue, pcmBytesPending, contexts, modules,
                 blobReads, starts, bytes, sentDuringStop, sessCloses,
                 sessFallbacks>>

\* the close() awaited by the j-th suspended stopAll has settled (the context
\* has closed, or the promise rejected and line 78 swallows it): lines 79-85
StopResume(j, mayThrow) ==
  /\ j \in 1..Len(stops)
  /\ UNCHANGED <<blobReordered, msgs, aux>>
  /\ \E fails \in SUBSET (mayThrow \cap (ReleaseCalls \cup {"audioContext.close"})) :
       /\ threw' = fails
       /\ contexts' = IF Released("audioContext.close", fails)
                      THEN [contexts EXCEPT ![stops[j].ctx] = "closed"]
                      ELSE contexts
       /\ StopTail(fails)
  /\ draining' = draining \cup (Producing(edges, contexts) \ Producing(edges, contexts'))
  /\ stopState' = IF stops[j].fresh THEN "done" ELSE stopState
  /\ last' = IF stops[j].fresh THEN "stopped" ELSE "other"
  /\ stops' = RemoveAt(stops, j)
  /\ UNCHANGED <<triedOpusFallback, sourceNode, processorNode, destinationNode,
                 currentMode, pcmQueue, pcmBytesPending, modules, edges,
                 blobReads, starts, bytes, raceStop, sentDuringStop, sessCloses,
                 sessFallbacks, requests>>

\* ------------------------------------------------------------ transport
\* ws.onopen: the keep-alive interval is (re)created; its id is the socket's
WsOnOpen(s) ==
  /\ last' = "other"
  /\ UNCHANGED <<blobReordered, msgs, threw, aux>>
  /\ s \in 1..Len(sockets)
  /\ sockets[s].state = "CONNECTING"
  /\ sockets' = [sockets EXCEPT ![s].state = "OPEN"]
  /\ keepAliveTimer' = s
  /\ UNCHANGED <<mediaStream, ws, triedOpusFallback, audioContext, sourceNode,
                 processorNode, destinationNode, currentMode, mediaRecorder,
                 pcmQueue, pcmBytesPending, liveStreams, contexts, modules,
                 edges, draining, blobReads, ctl, bytes, hist>>

\* an onclose that retries whenever the mode is pcm, whatever the flag says
FallbackDueIgnoringFlag == currentMode = "pcm"

\* ws.onclose line 228: does this close start the fallback?
FallbackDue == currentMode = "pcm" /\ ~triedOpusFallback

\* startOpusFallback: the current socket is closed and replaced by one in opus
\* mode.  Unless the type is unsupported (status, return), a recorder still
\* active is stopped (line 261) and a new one is created on mediaStream; with
\* mediaStream null the constructor throws and ws.onclose swallows it.
StartOpusFallback(socks, supported) ==
  /\ sockets' = Append(SocketClose(socks, ws), [state |-> "CONNECTING", mode |-> "opus"])
  /\ ws' = Len(socks) + 1
  /\ currentMode' = "opus"
  /\ mediaRecorder' = IF ~supported THEN mediaRecorder
                      ELSE IF mediaStream # 0 THEN "recording"
                      ELSE IF mediaRecorder = "recording" THEN "stopping"
                      ELSE mediaRecorder

\* the close event of socket s (the peer closed, the connection failed, or
\* close() was called on it): ws.onclose
WsOnClose(s) ==
  /\ last' = "other"
  /\ UNCHANGED <<blobReordered, msgs, threw, aux>>
  /\ s \in 1..Len(sockets)
  /\ sockets[s].state \in {"CONNECTING", "OPEN", "CLOSING"}
  /\ keepAliveTimer' = 0
  /\ sessCloses' = Min(sessCloses + 1, 2)
  /\ LET closed == [sockets EXCEPT ![s].state = "CLOSED"]
     IN IF FallbackDue
        THEN /\ triedOpusFallback' = TRUE
             /\ sessFallbacks' = sessFallbacks + 1
             /\ \E supported \in BOOLEAN : StartOpusFallback(closed, supported)
        ELSE /\ sockets' = closed
             /\ UNCHANGED <<triedOpusFallback, sessFallbacks, ws, currentMode,
                            mediaRecorder>>
  /\ UNCHANGED <<mediaStream, audioContext, sourceNode, processorNode,
                 destinationNode, pcmQueue, pcmBytesPending, liveStreams,
                 contexts, modules, edges, draining, blobReads, ctl, bytes,
                 stopState, raceStop, sentDuringStop, requests>>

\* the interval callback of ws.onopen (lines 142-148): a KeepAlive message is
\* sent on the current socket when it is OPEN; no state of the document changes
KeepAliveSends == keepAliveTimer # 0 /\ WsIsOpen

\* `counted`: the messages sent are counted (modulo 2) in keepAliveBit
KeepAliveTick(counted) ==
  /\ keepAliveTimer # 0
  /\ last' = "other"
  /\ keepAliveBit' = IF counted /\ KeepAliveSends
                     THEN 1 - keepAliveBit ELSE keepAliveBit
  /\ UNCHANGED <<blobReordered, msgs, threw, conv, sampleRate, blobSend, rest>>
  /\ UNCHANGED <<prog, plat, ctl, bytes, hist>>

\* ------------------------------------------------------------ audio callbacks
\* an onmessage without the readyState guard of line 123
AcceptsBlockUnguarded == currentMode = "pcm"

\* processorNode.port.onmessage lines 123-124: is the block converted and queued?
AcceptsBlock == WsIsOpen /\ currentMode = "pcm"

\* ---- lines 125-126: the conversion of a block.  A sample is the rational
\* n / d (d > 0): the averages downsampleBuffer takes are computed exactly.
\* The rounding of the values to float32 and of the quotients to float64 is
\* left out.
Sample(n, d) == [n |-> n, d |-> d]

\* Math.round of the non-negative quotient num / den: halves round up
MathRound(num, den) == (2 * num + den) \div (2 * den)

\* the sum of the numerators of buffer[lo + 1 .. hi] (lines 282-285: the
\* samples of a block have one denominator)
RECURSIVE Accum(_, _, _)
Accum(buffer, lo, hi) ==
  IF lo >= hi THEN 0 ELSE buffer[lo + 1].n + Accum(buffer, lo + 1, hi)

\* downsampleBuffer lines 279-289: the loop, from offsetResult / offsetBuffer
RECURSIVE DownsampleLoop(_, _, _, _, _, _)
DownsampleLoop(buffer, rate, outRate, newLength, offsetResult, offsetBuffer) ==
  IF offsetResult >= newLength THEN <<>>
  ELSE LET nextOffsetBuffer == MathRound((offsetResult + 1) * rate, outRate)
           upTo == Min(nextOffsetBuffer, Len(buffer))
           count == IF upTo > offsetBuffer THEN upTo - offsetBuffer ELSE 0
       IN <<Sample(Accum(buffer, offsetBuffer, upTo),
                   (IF buffer = <<>> THEN 1 ELSE buffer[1].d)
                     * (IF count = 0 THEN 1 ELSE count))>>
          \o DownsampleLoop(buffer, rate, outRate, newLength,
                            offsetResult + 1, nextOffsetBuffer)

\* a downsampleBuffer that resamples whatever the rates are
UpsamplingThrowsNever(rate, outRate) == FALSE

\* downsampleBuffer line 273
UpsamplingThrows(rate, outRate) == outRate > rate

\* a downsampleBuffer whose result is as long as its input
NewLengthOfInput(length, rate, outRate) == length

\* a downsampleBuffer that truncates the length instead of rounding it
NewLengthFloor(length, rate, outRate) == (length * outRate) \div rate

\* downsampleBuffer lines 274-275: Math.round(buffer.length / sampleRateRatio)
NewLength(length, rate, outRate) == MathRound(length * outRate, rate)

\* downsampleBuffer(buffer, sampleRate, outSampleRate): it throws, or returns
\* the samples of its result
DownsampleBuffer(buffer, rate, outRate) ==
  IF outRate = rate THEN [threw |-> FALSE, samples |-> buffer]
  ELSE IF UpsamplingThrows(rate, outRate) THEN [threw |-> TRUE, samples |-> <<>>]
  ELSE [threw |-> FALSE,
        samples |-> DownsampleLoop(buffer, rate, outRate,
                                   NewLength(Len(buffer), rate, outRate), 0, 0)]

\* a conversion that scales without clamping
ClampNone(s) == s

\* floatTo16BitPCM line 298: Math.max(-1, Math.min(1, s))
Clamp(s) ==
  IF s.n > s.d THEN Sample(1, 1)
  ELSE IF s.n < 0 - s.d THEN Sample(-1, 1)
  ELSE s

\* line 299: s < 0 ? s * 0x8000 : s * 0x7fff, as the integer setInt16 stores:
\* the fraction is dropped (toward zero) and the value taken modulo 2^16
ToInt16Bits(s) ==
  LET num == IF s.n < 0 THEN s.n * 32768 ELSE s.n * 32767
      int == IF num >= 0 THEN num \div s.d ELSE 0 - ((0 - num) \div s.d)
  IN int % 65536

\* floatTo16BitPCM: the bytes of the ArrayBuffer, two per sample, low byte
\* first (setInt16(offset, v, true))
RECURSIVE FloatTo16BitPCM(_)
FloatTo16BitPCM(float32Array) ==
  IF float32Array = <<>> THEN <<>>
  ELSE LET bits == ToInt16Bits(Clamp(Head(float32Array)))
       IN <<bits % 256, bits \div 256>> \o FloatTo16BitPCM(Tail(float32Array))

\* lines 125-126 for the block `input`
Convert(input) ==
  LET down == DownsampleBuffer(input, sampleRate, TARGET_SAMPLE_RATE)
  IN IF down.threw
     THEN [stage |-> "thrown", input |-> input, down |-> <<>>, pcm |-> <<>>]
     ELSE [stage |-> "converted", input |-> input, down |-> down.samples,
           pcm |-> FloatTo16BitPCM(down.samples)]

\* a block posted by PCMWorklet.process (part_001) of processor p is delivered
\* to processorNode.port.onmessage; lines 125-126 convert it to one of `sizes`
\* bytes.  Line 125 reads audioContext.sampleRate and throws when stopAll has
\* cleared audioContext.
BlockDelivered(p, sizes, maxBlocks) ==
  /\ p \in Producing(edges, contexts) \cup draining
  /\ last' = "block"
  /\ UNCHANGED <<blobReordered, msgs, threw, sampleRate, keepAliveBit, blobSend, rest>>
  /\ draining' = draining \ {p}
  /\ IF AcceptsBlock /\ audioContext # 0 /\ sizes # {}
     THEN \E n \in sizes :
            /\ nBlocks < maxBlocks
            /\ LET r == EnqueuePcm(pcmQueue, pcmBytesPending, n)
                   sends == WsIsOpen /\ r.chunks # <<>>
               IN /\ pcmQueue' = r.queue
                  /\ pcmBytesPending' = r.pending
                  /\ sentPcm' = IF sends THEN ConcatChunks(sentPcm, r.chunks)
                                ELSE sentPcm
                  /\ sentDuringStop' = (sentDuringStop \/ (stopState # "none" /\ sends))
            /\ nextByte' = nextByte + n
            /\ nBlocks' = nBlocks + 1
     ELSE UNCHANGED <<pcmQueue, pcmBytesPending, bytes, sentDuringStop>>
  /\ UNCHANGED <<mediaStream, ws, keepAliveTimer, triedOpusFallback, audioContext,
                 sourceNode, processorNode, destinationNode, currentMode,
                 mediaRecorder, sockets, liveStreams, contexts, modules, edges,
                 blobReads, ctl, stopState, raceStop, sessCloses, sessFallbacks,
                 requests>>

\* processorNode.port.onmessage for a block that is known by the byte length
\* of its conversion only
WorkletMessage(p, sizes, maxBlocks) ==
  /\ BlockDelivered(p, sizes, maxBlocks)
  /\ UNCHANGED conv

\* processorNode.port.onmessage for a block that is one of `inputs`: lines
\* 123-124 skip it, or downsampleBuffer throws (no size to enqueue), or the
\* bytes of its conversion are enqueued
PortOnMessage(p, inputs, maxBlocks) ==
  \E input \in inputs :
    /\ conv' = IF AcceptsBlock /\ audioContext # 0
               THEN Convert(input)
               ELSE [stage |-> "skipped", input |-> input, down |-> <<>>, pcm |-> <<>>]
    /\ BlockDelivered(p, IF conv'.stage = "converted" THEN {Len(conv'.pcm)} ELSE {},
                      maxBlocks)

\* mediaRecorder.ondataavailable up to the await of arrayBuffer() (lines
\* 264-266): `ws.send` is evaluated, and so the socket chosen, before the await.
\* A stopped recorder delivers one last blob.
RecorderData(maxReads) ==
  /\ last' = "other"
  /\ UNCHANGED <<blobReordered, msgs, threw, aux>>
  /\ mediaRecorder \in {"recording", "stopping"}
  /\ mediaRecorder' = IF mediaRecorder = "stopping" THEN "inactive" ELSE mediaRecorder
  /\ \E empty \in BOOLEAN :
       IF ~empty /\ WsIsOpen
       THEN /\ Len(blobReads) < maxReads
            /\ blobReads' = Append(blobReads, [sock |-> ws, late |-> FALSE])
       ELSE UNCHANGED blobReads
  /\ UNCHANGED <<mediaStream, ws, keepAliveTimer, triedOpusFallback, audioContext,
                 sourceNode, processorNode, destinationNode, currentMode,
                 pcmQueue, pcmBytesPending, sockets, liveStreams, contexts,
                 modules, edges, draining, ctl, bytes, hist>>

\* a handler that reads the variable ws when the blob has been read
SendTargetAfterAwait(k) == ws

\* line 266, `ws.send(await e.data.arrayBuffer())`: the callee ws.send is
\* evaluated before its argument, so the socket is the one that was ws when
\* the blob was produced
SendTarget(k) == blobReads[k].sock

\* arrayBuffer() resolves: send() on the socket chosen before the await; it
\* transmits only on an OPEN socket (CLOSING/CLOSED discard, CONNECTING throws
\* and line 266 swallows it).  `recorded`: the call is recorded in blobSend.
BlobReadDone(k, recorded) ==
  /\ last' = "other"
  /\ k \in 1..Len(blobReads)
  /\ LET target == SendTarget(k)
         transmits == target # 0 /\ sockets[target].state = "OPEN"
     IN /\ blobReads' = RemoveAt([j \in 1..Len(blobReads) |->
                                    IF transmits /\ j < k
                                    THEN [blobReads[j] EXCEPT !.late = TRUE]
                                    ELSE blobReads[j]], k)
        /\ blobReordered' = (blobReordered \/ (transmits /\ blobReads[k].late))
        /\ sentDuringStop' = (sentDuringStop \/ (stopState # "none" /\ transmits))
        /\ blobSend' = IF recorded
                       THEN [produced |-> blobReads[k].sock, sock |-> target,
                             state |-> IF target = 0 THEN "none"
                                       ELSE sockets[target].state,
                             current |-> ws, transmitted |-> transmits]
                       ELSE blobSend
  /\ UNCHANGED <<msgs, threw, conv, sampleRate, keepAliveBit, rest>>
  /\ UNCHANGED <<prog, sockets, liveStreams, contexts, modules, edges, draining,
                 ctl, bytes, stopState, raceStop, sessCloses, sessFallbacks,
                 requests>>

\* ------------------------------------------------------------ worklet.js
\* the samples of the buffer a posted message refers to
Contents(buf) == IF buf = 0 THEN channel0.samples ELSE copies[buf]

\* a process() that posts the array it was given
PostsItsInput(fresh) == 0

\* part_001 lines 8-10: the message is `copy`, the array allocated at line 8
PostedBuffer(fresh) == fresh

\* the platform renders a quantum: it writes the samples into the buffer it
\* passes to process(), the same for every call, or the input has no channel
RenderQuantum(blocks) ==
  /\ channel0' \in ({Channel(b) : b \in blocks} \cup {NoChannel}) \ {channel0}
  /\ UNCHANGED <<copies, portMessages>>
  /\ UNCHANGED <<prog, plat, ctl, bytes, hist, last, blobReordered, msgs, threw,
                 conv, sampleRate, keepAliveBit, blobSend, ovl, bkg>>

\* PCMWorklet.process (part_001 lines 2-12): nothing is posted without a
\* channel; otherwise a new Float32Array of the same length is filled with
\* the samples (copy.set) and posted, its buffer being transferred
Process(maxPosted) ==
  /\ Len(copies) < maxPosted
  /\ IF channel0 = NoChannel
     THEN UNCHANGED <<copies, portMessages>>
     ELSE LET copy == [k \in 1..Len(channel0.samples) |-> channel0.samples[k]]
          IN /\ copies' = Append(copies, copy)
             /\ portMessages' = Append(portMessages,
                                  [buf |-> PostedBuffer(Len(copies) + 1),
                                   snap |-> channel0.samples])
  /\ UNCHANGED channel0
  /\ UNCHANGED <<prog, plat, ctl, bytes, hist, last, blobReordered, msgs, threw,
                 conv, sampleRate, keepAliveBit, blobSend, ovl, bkg>>

\* the oldest message is delivered to processorNode.port.onmessage
PortDeliver ==
  /\ portMessages # <<>>
  /\ portMessages' = Tail(portMessages)
  /\ UNCHANGED <<channel0, copies>>
  /\ UNCHANGED <<prog, plat, ctl, bytes, hist, last, blobReordered, msgs, threw,
                 conv, sampleRate, keepAliveBit, blobSend, ovl, bkg>>

\* ------------------------------------------------------------ content.js
\* what an action of the overlay leaves alone
offscreen == <<prog, plat, ctl, bytes, hist, last, blobReordered, msgs, threw,
               conv, sampleRate, keepAliveBit, blobSend, wkl, bkg>>

\* a grouping that also takes a segment exactly 5000 ms after the last one
JoinsGroupWithin(segment, currentGroup) ==
  /\ segment.speaker = currentGroup.speaker
  /\ segment.timestamp - currentGroup.lastTimestamp <= 5000

\* groupSegmentsBySpeaker lines 833-836: does the segment join currentGroup?
JoinsGroup(segment, currentGroup) ==
  /\ segment.speaker = currentGroup.speaker
  /\ segment.timestamp - currentGroup.lastTimestamp < 5000

\* lines 824-828 and 842-846: the group a segment starts.  A group's text is
\* the sequence of the texts that line 837 joins with " ".
NewGroup(segment) ==
  [speaker |-> segment.speaker, text |-> <<segment.text>>,
   lastTimestamp |-> segment.timestamp]

\* lines 830-850: the loop from segment i on, and the push of the last group
RECURSIVE GroupLoop(_, _, _, _)
GroupLoop(segments, i, groups, currentGroup) ==
  IF i > Len(segments) THEN Append(groups, currentGroup)
  ELSE IF JoinsGroup(segments[i], currentGroup)
       THEN GroupLoop(segments, i + 1, groups,
                      [currentGroup EXCEPT !.text = Append(@, segments[i].text),
                                           !.lastTimestamp = segments[i].timestamp])
       ELSE GroupLoop(segments, i + 1, Append(groups, currentGroup),
                      NewGroup(segments[i]))

\* groupSegmentsBySpeaker(segments)
GroupSegmentsBySpeaker(segments) ==
  IF Len(segments) = 0 THEN <<>>
  ELSE GroupLoop(segments, 2, <<>>, NewGroup(segments[1]))

\* updateTranslationDisplay: the element is emptied (the placeholder and the
\* interim element go with it) and gets one section per group
UpdateTranslationDisplay(segments) ==
  LET groupedSegments == GroupSegmentsBySpeaker(segments)
  IN [placeholder |-> FALSE,
      sections |-> [g \in 1..Len(groupedSegments) |->
                      [speaker |-> groupedSegments[g].speaker,
                       text |-> groupedSegments[g].text]],
      interim |-> 0]

\* clearBtn.onclick lines 488-491 does not touch translationSegments
AfterClear(segments) == segments

\* DG_TRANSCRIPT_FINAL arrives (lines 710-715): ensureUi finds the overlay
\* built.  translateText returns "" for a text that is empty or blank without
\* awaiting anything: the listener goes on before any other event, removes
\* the placeholder (738-741) and pushes nothing (744).  Otherwise it is
\* suspended at the fetch of translateText.  The speaker is msg.speaker:
\* getCurrentSpeaker() finds no active track.
FinalArrives(speaker, hasText, maxMessages) ==
  /\ received < maxMessages
  /\ received' = received + 1
  /\ IF hasText
     THEN /\ translating' = translating \cup
                 {[type |-> "final", n |-> received + 1, speaker |-> speaker]}
          /\ UNCHANGED transcriptEl
     ELSE /\ transcriptEl' = [transcriptEl EXCEPT !.placeholder = FALSE]
          /\ UNCHANGED translating
  /\ UNCHANGED <<translationSegments, now, clicks, clearedTexts>>
  /\ UNCHANGED offscreen

\* the translation of a final arrives (its own text on an error, lines
\* 349-359), `elapsed` ms after the previous one: lines 717-757 push the
\* segment with Date.now() and render the whole list
FinalTranslated(t, elapsed) ==
  /\ t \in translating /\ t.type = "final"
  /\ translating' = translating \ {t}
  /\ now' = now + elapsed
  /\ translationSegments' =
       Append(translationSegments,
              [text |-> t.n, speaker |-> t.speaker, timestamp |-> now'])
  /\ transcriptEl' = UpdateTranslationDisplay(translationSegments')
  /\ UNCHANGED <<received, clicks, clearedTexts>>
  /\ UNCHANGED offscreen

\* DG_TRANSCRIPT_INTERIM arrives (lines 762-766): nothing is done for an empty
\* text; otherwise the listener is suspended at the fetch of translateText
InterimArrives(hasText, maxMessages) ==
  /\ received < maxMessages
  /\ received' = received + 1
  /\ translating' = IF hasText
                    THEN translating \cup
                           {[type |-> "interim", n |-> received + 1,
                             speaker |-> "Speaker"]}
                    ELSE translating
  /\ UNCHANGED <<translationSegments, transcriptEl, now, clicks, clearedTexts>>
  /\ UNCHANGED offscreen

\* the translation of an interim arrives: showInterimTranslation (853-889)
\* replaces the interim element, if there is one, by one with this text
InterimTranslated(t) ==
  /\ t \in translating /\ t.type = "interim"
  /\ translating' = translating \ {t}
  /\ transcriptEl' = [transcriptEl EXCEPT !.interim = t.n]
  /\ UNCHANGED <<translationSegments, received, now, clicks, clearedTexts>>
  /\ UNCHANGED offscreen

\* clearBtn.onclick lines 488-491: the element is emptied and the
\* placeholder shown
ClearClick(maxClicks) ==
  /\ clicks < maxClicks
  /\ clicks' = clicks + 1
  /\ clearedTexts' = clearedTexts \cup
       {transcriptEl.sections[g].text[j] :
          <<g, j>> \in {<<h, k>> \in (1..Len(transcriptEl.sections)) \X (1..received) :
                          k <= Len(transcriptEl.sections[h].text)}}
  /\ transcriptEl' = Placeholder
  /\ translationSegments' = AfterClear(translationSegments)
  /\ UNCHANGED <<translating, received, now>>
  /\ UNCHANGED offscreen

\* ------------------------------------------------------------ background.js
\* what an action of the background script leaves alone
pages == <<prog, plat, ctl, bytes, hist, last, blobReordered, msgs, threw,
           conv, sampleRate, keepAliveBit, blobSend, wkl, ovl>>

\* postStatus (background.js 62-64, part_002 24-26): `Error: ...` texts are
\* recorded as "Error"
PostStatus(text, r, by) == Append(statuses, [text |-> text, request |-> r, by |-> by])

\* the listener's try block after an await that resolved (next: the await it
\* reaches) or rejected (catch, line 21)
Awaited(r, ok, next) ==
  /\ startRequests' = [startRequests EXCEPT ![r].pc = IF ok THEN next ELSE "done"]
  /\ statuses' = IF ok THEN statuses ELSE PostStatus("Error", r, "background")

\* START_TRANSCRIBE arrives (lines 10-12): up to `await ensureOffscreen()`
StartTranscribe(maxRequests) ==
  /\ Len(startRequests) < maxRequests
  /\ startRequests' = Append(startRequests,
                             [pc |-> "ensureOffscreen", offscreen |-> "none"])
  /\ UNCHANGED statuses
  /\ UNCHANGED pages

\* ensureOffscreen settles (26-37): startTranscription runs up to its await
\* of chrome.storage.local.get, or createDocument failed
EnsureOffscreenSettles(r, ok) ==
  /\ r \in 1..Len(startRequests) /\ startRequests[r].pc = "ensureOffscreen"
  /\ Awaited(r, ok, "storage")
  /\ UNCHANGED pages

\* storage.local.get resolves (40-42): without a key line 41 throws;
\* otherwise getMediaStreamId is called
StorageGet(r, hasKey) ==
  /\ r \in 1..Len(startRequests) /\ startRequests[r].pc = "storage"
  /\ Awaited(r, hasKey, "getMediaStreamId")
  /\ UNCHANGED pages

\* the callback of getMediaStreamId (43-48): with lastError the promise
\* rejects; otherwise line 50 sends OFFSCREEN_START
GetMediaStreamId(r, ok) ==
  /\ r \in 1..Len(startRequests) /\ startRequests[r].pc = "getMediaStreamId"
  /\ startRequests' =
       [startRequests EXCEPT ![r] = IF ok THEN [pc |-> "sendMessage", offscreen |-> "sent"]
                                    ELSE [pc |-> "done", offscreen |-> "none"]]
  /\ statuses' = IF ok THEN statuses ELSE PostStatus("Error", r, "background")
  /\ UNCHANGED pages

\* part_002 lines 88-90: the offscreen listener receives OFFSCREEN_START and
\* runs up to the first await of startWithStreamId.  The listener is an
\* async function: it returns a promise and never a response.
OffscreenStartReceived(r) ==
  /\ r \in 1..Len(startRequests) /\ startRequests[r].offscreen = "sent"
  /\ startRequests' = [startRequests EXCEPT ![r].offscreen = "starting"]
  /\ UNCHANGED statuses
  /\ UNCHANGED pages

\* part_002 lines 90-94: startWithStreamId returns, or throws (getUserMedia
\* or addModule rejected) and the catch posts `Error: ...`
OffscreenStartSettles(r, ok) ==
  /\ r \in 1..Len(startRequests) /\ startRequests[r].offscreen = "starting"
  /\ startRequests' = [startRequests EXCEPT ![r].offscreen =
                                              IF ok THEN "started" ELSE "failed"]
  /\ statuses' = IF ok THEN statuses ELSE PostStatus("Error", r, "offscreen")
  /\ UNCHANGED pages

\* line 50: the promise of chrome.runtime.sendMessage resolves, with no
\* response, once the listener has been called: when it has returned its
\* promise, or, where the platform waits for that promise, when it has
\* settled (it is never rejected: lines 91-94 catch)
SendMessageResolves(r) == startRequests[r].offscreen \in {"starting", "started", "failed"}

\* lines 13-14: startTranscription returns and 'Running' is posted
SendMessageResolved(r) ==
  /\ r \in 1..Len(startRequests) /\ startRequests[r].pc = "sendMessage"
  /\ SendMessageResolves(r)
  /\ startRequests' = [startRequests EXCEPT ![r].pc = "done"]
  /\ statuses' = PostStatus("Running", r, "background")
  /\ UNCHANGED pages

\* ------------------------------------------------------------ inbound messages
\* A message type is a sequence of characters, so that toLowerCase() and
\* includes() are computed.
T_Results == <<"R", "e", "s", "u", "l", "t", "s">>
T_Metadata == <<"M", "e", "t", "a", "d", "a", "t", "a">>
T_Error == <<"E", "r", "r", "o", "r">>
T_error == <<"e", "r", "r", "o", "r">>

\* String.prototype.toLowerCase on the characters used
ToLowerCase(t) ==
  [i \in DOMAIN t |->
     CASE t[i] = "E" -> "e" [] t[i] = "M" -> "m" [] t[i] = "R" -> "r"
       [] OTHER -> t[i]]

\* String.prototype.includes
Includes(t, sub) ==
  \E i \in 0..(Len(t) - Len(sub)) : SubSeq(t, i + 1, i + Len(sub)) = sub

\* a case-sensitive test for 'error'
IsErrorTypeCaseSensitive(t) == t # <<>> /\ Includes(t, T_error)

\* line 216: msg.type && msg.type.toLowerCase().includes('error')
IsErrorType(t) == t # <<>> /\ Includes(ToLowerCase(t), T_error)

\* a word without a speaker tag (word.speaker === undefined); a word without
\* a language has language ""
NoTag == -1

\* the tags carried by the words, in word order
SpeakerTags(words) ==
  LET tagged == SelectSeq(words, LAMBDA w : w.speaker # NoTag)
  IN [i \in DOMAIN tagged |-> tagged[i].speaker]

LanguageTags(words) ==
  LET tagged == SelectSeq(words, LAMBDA w : w.language # "")
  IN [i \in DOMAIN tagged |-> tagged[i].language]

\* Object.keys of the counting object built by forEach (lines 164-170,
\* 193-198): the distinct tags in the order they were first encountered
RECURSIVE KeysOf(_, _)
KeysOf(tags, keys) ==
  IF tags = <<>> THEN keys
  ELSE KeysOf(Tail(tags),
              IF \E i \in DOMAIN keys : keys[i] = Head(tags) THEN keys
              ELSE Append(keys, Head(tags)))

\* the count forEach accumulates for key k
CountOf(tags, k) == Cardinality({i \in DOMAIN tags : tags[i] = k})

\* keys.reduce((a, b) => counts[a] > counts[b] ? a : b, acc) over `keys`
RECURSIVE ReduceKeys(_, _, _)
ReduceKeys(keys, acc, tags) ==
  IF keys = <<>> THEN acc
  ELSE ReduceKeys(Tail(keys),
                  IF CountOf(tags, acc) > CountOf(tags, Head(keys))
                  THEN acc ELSE Head(keys),
                  tags)

SpeakerName(tag) == [name |-> "Speaker", tag |-> tag]
UnknownSpeaker == [name |-> "Unknown Speaker", tag |-> NoTag]

\* a resolution that takes the first tag encountered, whatever the counts
DominantSpeakerFirstKey(words) ==
  IF SpeakerTags(words) = <<>> THEN UnknownSpeaker
  ELSE SpeakerName(SpeakerTags(words)[1])

\* lines 161-179: the initial value of reduce is keys[0], so every key is
\* compared, keys[0] with itself first; with no key the result is undefined
\* and the speaker stays "Unknown Speaker"
DominantSpeaker(words) ==
  LET tags == SpeakerTags(words)
      keys == KeysOf(tags, <<>>)
  IN IF words = <<>> \/ keys = <<>> THEN UnknownSpeaker
     ELSE SpeakerName(ReduceKeys(keys, keys[1], tags))

\* a resolution that keeps the sequence-level estimate
DominantLanguageOfSequence(alt) ==
  IF alt.languages # <<>> THEN alt.languages[1] ELSE "en"

\* lines 181-204: 'en', overridden by alt.languages[0], overridden by the
\* word-level tags when there are any; reduce has no initial value here, so
\* it starts from keys[0] and compares the other keys
DominantLanguage(alt) ==
  LET tags == LanguageTags(alt.words)
      keys == KeysOf(tags, <<>>)
  IN IF alt.words # <<>> /\ keys # <<>>
     THEN ReduceKeys(Tail(keys), keys[1], tags)
     ELSE IF alt.languages # <<>> THEN alt.languages[1] ELSE "en"

\* a handler that posts whatever the text is
HasTextAlways(ev) == TRUE

\* lines 157-158: const text = alt.transcript || ''; if (!text) return
HasText(ev) == ev.transcript # ""

\* a handler that posts every transcript as final
TranscriptTypeFinal(ev) == "DG_TRANSCRIPT_FINAL"

\* lines 206-209: msg.is_final === true selects the message type
TranscriptType(ev) ==
  IF ev.is_final = "true" THEN "DG_TRANSCRIPT_FINAL" ELSE "DG_TRANSCRIPT_INTERIM"

\* a handler that reports a payload it cannot parse
MalformedOutStatus == <<[type |-> "STATUS_UPDATE", text |-> "Deepgram error"]>>

\* line 154: JSON.parse throws, the handler returns
MalformedOut == <<>>

\* ws.onmessage lines 151-219: the messages posted for the payload ev.
\* A payload is "malformed" (JSON.parse throws) or parsed: its type, whether
\* channel.alternatives[0] exists and, of that alternative, the transcript
\* ("" when absent), is_final ("true", "false", "absent"), the words and the
\* languages (<<>> when absent).
OnMessage(ev) ==
  IF ev.kind = "malformed" THEN MalformedOut
  ELSE IF ev.type = T_Results /\ ev.alt
       THEN IF HasText(ev)
            THEN <<[type |-> TranscriptType(ev),
                    text |-> ev.transcript,
                    speaker |-> DominantSpeaker(ev.words),
                    language |-> DominantLanguage(ev),
                    detectedLanguages |-> ev.languages]>>
            ELSE <<>>
       ELSE IF IsErrorType(ev.type)
            THEN <<[type |-> "STATUS_UPDATE", text |-> "Deepgram error"]>>
            ELSE <<>>

\* the transcript messages among outs, as posted on bgPort for event n
Transcripts(outs, n) ==
  [i \in DOMAIN SelectSeq(outs, LAMBDA m : m.type # "STATUS_UPDATE") |->
     [type |-> SelectSeq(outs, LAMBDA m : m.type # "STATUS_UPDATE")[i].type, n |-> n]]

\* a message event of socket s (a socket delivers messages until its close
\* event): ws.onmessage.  The port to the background stays connected.
WsOnMessage(s, events, maxEvents) ==
  /\ s \in 1..Len(sockets)
  /\ sockets[s].state \in {"OPEN", "CLOSING"}
  /\ arrived < maxEvents
  /\ \E ev \in events :
       /\ lastEvent' = ev
       /\ lastOut' = OnMessage(ev)
       /\ posted' = posted \o Transcripts(OnMessage(ev), arrived + 1)
  /\ arrived' = arrived + 1
  /\ last' = "message"
  /\ UNCHANGED <<prog, plat, ctl, bytes, hist, blobReordered, threw, aux>>

\* an error event of socket s: ws.onerror posts a status (lines 221-223); the
\* close event of the socket follows as an event of its own
WsOnError(s) ==
  /\ s \in 1..Len(sockets)
  /\ sockets[s].state \in {"CONNECTING", "OPEN", "CLOSING"}
  /\ lastOut' = <<[type |-> "STATUS_UPDATE", text |-> "Deepgram socket error"]>>
  /\ last' = "error"
  /\ UNCHANGED <<prog, plat, ctl, bytes, hist, blobReordered, arrived, lastEvent,
                 posted, threw, aux>>

\* ---- the payloads the handlers are exercised with
Seqs(S, n) == UNION {[1..k -> S] : k \in 0..n}

\* word lists that differ in their speaker tags only, or in their languages only
SpeakerWords ==
  Seqs({[speaker |-> t, language |-> ""] : t \in {NoTag, 0, 1, 2}}, MaxWords)
LanguageWords ==
  Seqs({[speaker |-> NoTag, language |-> l] : l \in {"", "en", "es"}}, MaxWords)

Results(transcript, final, words, languages) ==
  [kind |-> "json", type |-> T_Results, alt |-> TRUE, transcript |-> transcript,
   is_final |-> final, words |-> words, languages |-> languages]

Other(type) ==
  [kind |-> "json", type |-> type, alt |-> FALSE, transcript |-> "",
   is_final |-> "absent", words |-> <<>>, languages |-> <<>>]

Malformed == [kind |-> "malformed"]

\* every speaker tagging and every language tagging of up to MaxWords words,
\* every combination of text and is_final, and payloads that are no
\* recognition event
ReconcilerEvents ==
  {Results("hola", "true", w, <<>>) : w \in SpeakerWords}
  \cup
  {Results("hola", "false", w, l) :
     w \in LanguageWords, l \in {<<>>, <<"es">>, <<"en", "es">>}}
  \cup
  {Results(t, f, w, <<>>) :
     t \in {"", "hola"}, f \in {"true", "false", "absent"},
     w \in {<<>>, <<[speaker |-> 0, language |-> "es"]>>}}
  \cup {Malformed, Other(T_Results), Other(T_Metadata), Other(T_Error), Other(<<>>)}

SessionEvents ==
  {Malformed, Other(T_Metadata), Other(T_Error), Other(T_error),
   Results("hola", "true", <<[speaker |-> 0, language |-> "es"]>>, <<"es">>),
   Results("hola", "false", <<>>, <<>>),
   Results("", "false", <<>>, <<>>)}

\* ------------------------------------------------------------ specifications
\* the events of the platform other than the steps of setupAudioPipeline up
\* to addModule: promise settlements, socket events, timer and audio callbacks
Platform(sizes, maxBlocks, maxReads) ==
  \/ \E i \in 1..Len(starts) : GetUserMediaReject(i)
  \/ \E i \in 1..Len(starts) : AddModuleReject(i)
  \/ \E i \in 1..Len(starts) : AddModuleResolve(i)
  \/ \E j \in 1..Len(stops) : StopResume(j, {})
  \/ \E s \in 1..Len(sockets) : WsOnOpen(s)
  \/ \E s \in 1..Len(sockets) : WsOnClose(s)
  \/ KeepAliveTick(FALSE)
  \/ \E p \in 1..Len(starts) : WorkletMessage(p, sizes, maxBlocks)
  \/ RecorderData(maxReads)
  \/ \E k \in 1..Len(blobReads) : BlobReadDone(k, FALSE)

\* One capture session: a single OFFSCREEN_START, then OFFSCREEN_STOP messages
\* at any time; the AudioContext may be created suspended.
Next ==
  \/ OffscreenStart(starts = <<>>)
  \/ OffscreenStop(requests - Len(starts) < MaxStops, {})
  \/ \E i \in 1..Len(starts) : GetUserMediaResolve(i, BOOLEAN)
  \/ \E i \in 1..Len(starts) : ResumeDone(i)
  \/ Platform(BlockBytes, MaxBlocks, MaxSessionReads)

Spec == Init /\ [][Next]_vars

\* Any sequence of OFFSCREEN_START and OFFSCREEN_STOP messages, arriving at
\* any time (also while earlier ones are being handled); every AudioContext
\* is created running, so that setupAudioPipeline never awaits resume().
NextRequests ==
  \/ OffscreenStart(requests < MaxRequests)
  \/ OffscreenStop(requests < MaxRequests, {})
  \/ \E i \in 1..Len(starts) : GetUserMediaResolve(i, {FALSE})
  \/ Platform(BlockBytes, MaxBlocks, MaxReads)

SpecRequests == Init /\ [][NextRequests]_vars

\* A capture whose connection opens and stays open: one OFFSCREEN_START, no
\* stop, no failure, no close; blocks of every length in FramerBlockBytes.
NextFramer ==
  \/ OffscreenStart(starts = <<>>)
  \/ \E i \in 1..Len(starts) : GetUserMediaResolve(i, BOOLEAN)
  \/ \E i \in 1..Len(starts) : ResumeDone(i)
  \/ \E i \in 1..Len(starts) : AddModuleResolve(i)
  \/ \E s \in 1..Len(sockets) : WsOnOpen(s)
  \/ KeepAliveTick(FALSE)
  \/ \E p \in 1..Len(starts) : WorkletMessage(p, FramerBlockBytes, MaxFramerBlocks)

SpecFramer == Init /\ [][NextFramer]_vars

\* A connection that opens and stays open, on which messages of every shape
\* in ReconcilerEvents arrive.
NextReconciler ==
  \/ OffscreenStart(starts = <<>>)
  \/ \E i \in 1..Len(starts) : GetUserMediaResolve(i, {FALSE})
  \/ \E i \in 1..Len(starts) : AddModuleResolve(i)
  \/ \E s \in 1..Len(sockets) : WsOnOpen(s)
  \/ \E s \in 1..Len(sockets) : WsOnMessage(s, ReconcilerEvents, MaxReconciled)

SpecReconciler == Init /\ [][NextReconciler]_vars

\* One capture session in which messages and error events arrive at any time:
\* one OFFSCREEN_START, one OFFSCREEN_STOP, audio blocks, closes and fallback.
NextMessages ==
  \/ OffscreenStart(starts = <<>>)
  \/ OffscreenStop(requests - Len(starts) < 1, {})
  \/ \E i \in 1..Len(starts) : GetUserMediaResolve(i, {FALSE})
  \/ \E i \in 1..Len(starts) : AddModuleResolve(i)
  \/ \E j \in 1..Len(stops) : StopResume(j, {})
  \/ \E s \in 1..Len(sockets) : WsOnOpen(s)
  \/ \E s \in 1..Len(sockets) : WsOnClose(s)
  \/ \E p \in 1..Len(starts) : WorkletMessage(p, BlockBytes, MaxBlocks)
  \/ \E s \in 1..Len(sockets) : WsOnMessage(s, SessionEvents, MaxEvents)
  \/ \E s \in 1..Len(sockets) : WsOnError(s)

SpecMessages == Init /\ [][NextMessages]_vars

\* every call stopAll makes inside a try block (lines 75-85)
StopCalls ==
  {"processorNode.disconnect", "sourceNode.disconnect",
   "destinationNode.disconnect", "audioContext.close", "track.stop",
   "ws.close", "clearInterval", "mediaRecorder.stop"}

\* One capture session, possibly fallen back to the recorder, and one
\* OFFSCREEN_STOP in which any of the release calls may throw.
NextTeardown ==
  \/ OffscreenStart(starts = <<>>)
  \/ OffscreenStop(requests - Len(starts) < 1, StopCalls)
  \/ \E i \in 1..Len(starts) : GetUserMediaResolve(i, {FALSE})
  \/ \E i \in 1..Len(starts) : AddModuleResolve(i)
  \/ \E j \in 1..Len(stops) : StopResume(j, StopCalls)
  \/ \E s \in 1..Len(sockets) : WsOnOpen(s)
  \/ \E s \in 1..Len(sockets) : WsOnClose(s)

SpecTeardown == Init /\ [][NextTeardown]_vars

\* ---- the blocks and rates the conversion is exercised with
\* sample values from -1.5 to 1.5 in steps of one half
Samples == {Sample(k, 2) : k \in -3..3}

\* a block of n samples that runs through the sample values
Ramp(n) == [k \in 1..n |-> Sample(((2 * k) % 7) - 3, 2)]

ConvertBlocks == Seqs(Samples, MaxSamples) \cup {Ramp(n) : n \in 0..MaxBlockSamples}

\* hardware rates below, at and above TARGET_SAMPLE_RATE
SampleRates == {8000, 16000, 22050, 32000, 44100, 48000, 96000}

\* A capture at any of the hardware rates in SampleRates whose connection
\* opens and stays open; blocks of every shape in ConvertBlocks.
InitConvert == Loaded /\ sampleRate \in SampleRates

NextConvert ==
  \/ OffscreenStart(starts = <<>>)
  \/ \E i \in 1..Len(starts) : GetUserMediaResolve(i, {FALSE})
  \/ \E i \in 1..Len(starts) : AddModuleResolve(i)
  \/ \E s \in 1..Len(sockets) : WsOnOpen(s)
  \/ \E p \in 1..Len(starts) : PortOnMessage(p, ConvertBlocks, MaxConverted)

SpecConvert == InitConvert /\ [][NextConvert]_vars

\* OFFSCREEN_START messages at any time and no OFFSCREEN_STOP: connections
\* open and close, the fallback runs, and the interval callback of a timer
\* that is set is eventually run (setInterval keeps firing).
NextLive ==
  \/ OffscreenStart(requests < MaxRequests)
  \/ \E i \in 1..Len(starts) : GetUserMediaResolve(i, {FALSE})
  \/ \E i \in 1..Len(starts) : AddModuleResolve(i)
  \/ \E s \in 1..Len(sockets) : WsOnOpen(s)
  \/ \E s \in 1..Len(sockets) : WsOnClose(s)
  \/ KeepAliveTick(TRUE)

SpecLive == Init /\ [][NextLive]_vars /\ WF_vars(KeepAliveTick(TRUE))

\* OFFSCREEN_START and OFFSCREEN_STOP messages at any time, connections that
\* open and close, the fallback and its recorder; every ws.send of a blob is
\* recorded.
NextBlobs ==
  \/ OffscreenStart(requests < MaxRequests)
  \/ OffscreenStop(requests < MaxRequests, {})
  \/ \E i \in 1..Len(starts) : GetUserMediaResolve(i, {FALSE})
  \/ \E i \in 1..Len(starts) : AddModuleResolve(i)
  \/ \E j \in 1..Len(stops) : StopResume(j, {})
  \/ \E s \in 1..Len(sockets) : WsOnOpen(s)
  \/ \E s \in 1..Len(sockets) : WsOnClose(s)
  \/ RecorderData(MaxReads)
  \/ \E k \in 1..Len(blobReads) : BlobReadDone(k, TRUE)

SpecBlobs == Init /\ [][NextBlobs]_vars

\* The rendering thread: quanta of one or two samples are rendered into the
\* platform's buffer, process() is called at most MaxPosted times, messages
\* are delivered.
WorkletBlocks == Seqs({Sample(-1, 2), Sample(1, 2)}, 2) \ {<<>>}

NextWorklet ==
  \/ RenderQuantum(WorkletBlocks)
  \/ Process(MaxPosted)
  \/ PortDeliver

SpecWorklet == Init /\ [][NextWorklet]_vars

\* The overlay: up to MaxOverlayMessages transcript messages of two speakers
\* arrive, their translations complete in any order, 0, 4999 or 5000 ms
\* apart, and Clear is clicked at any time.
OverlaySpeakers == {"Speaker 0", "Speaker 1"}
Elapsed == {0, 4999, 5000}

NextOverlay ==
  \/ \E speaker \in OverlaySpeakers, hasText \in BOOLEAN :
       FinalArrives(speaker, hasText, MaxOverlayMessages)
  \/ \E t \in translating, elapsed \in Elapsed : FinalTranslated(t, elapsed)
  \/ \E hasText \in BOOLEAN : InterimArrives(hasText, MaxOverlayMessages)
  \/ \E t \in translating : InterimTranslated(t)
  \/ ClearClick(MaxClicks)

SpecOverlay == Init /\ [][NextOverlay]_vars

\* The background script: up to MaxStartRequests START_TRANSCRIBE messages, at
\* any time; every await of the listener resolves or rejects.
NextBackground ==
  \/ StartTranscribe(MaxStartRequests)
  \/ \E r \in 1..Len(startRequests), ok \in BOOLEAN : EnsureOffscreenSettles(r, ok)
  \/ \E r \in 1..Len(startRequests), hasKey \in BOOLEAN : StorageGet(r, hasKey)
  \/ \E r \in 1..Len(startRequests), ok \in BOOLEAN : GetMediaStreamId(r, ok)
  \/ \E r \in 1..Len(startRequests) : OffscreenStartReceived(r)
  \/ \E r \in 1..Len(startRequests), ok \in BOOLEAN : OffscreenStartSettles(r, ok)
  \/ \E r \in 1..Len(startRequests) : SendMessageResolved(r)

SpecBackground == Init /\ [][NextBackground]_vars

\* ------------------------------------------------------------ properties
\* C1: on a connection that stays OPEN, the chunks passed to ws.send,
\* concatenated, are exactly the enqueued bytes [0, nextByte) cut to the
\* largest multiple of PCM_TARGET_CHUNK_BYTES not exceeding nextByte: in
\* order, none lost, none twice, no padding.
C1_ChunksAreTruncatedInput ==
  sentPcm = IF nextByte < PCM_TARGET_CHUNK_BYTES THEN <<>>
            ELSE <<Range(0, PCM_TARGET_CHUNK_BYTES * (nextByte \div PCM_TARGET_CHUNK_BYTES))>>

\* more than two chunks were sent, a chunk was assembled from several blocks
\* and part of a block is still queued
C1_Witness ==
  /\ sentPcm # <<>>
  /\ nextByte > 2 * PCM_TARGET_CHUNK_BYTES
  /\ nBlocks >= 3
  /\ pcmBytesPending > 0
  /\ pcmQueue # <<>>

\* C2: once a stopAll invoked with no start pending has run to its end, no
\* socket is CONNECTING or OPEN and no keep-alive timer is set, in every later
\* state up to the next OFFSCREEN_START.
C2_StoppedStaysClosed ==
  (stopState = "done" /\ ~raceStop) => (Alive = {} /\ keepAliveTimer = 0)

\* C3: a capture session starts at most one fallback, and only on its first
\* close event; a close event handled after another one of the session, or in
\* opus mode, creates no socket and leaves ws alone.
C3_AtMostOneFallback ==
  [][ /\ sessFallbacks' <= 1
      /\ (sessFallbacks' > sessFallbacks) => (sessCloses = 0)
      /\ ( /\ \E s \in 1..Len(sockets) :
                  sockets[s].state # "CLOSED" /\ sockets'[s].state = "CLOSED"
           /\ (sessCloses >= 1 \/ currentMode = "opus") )
         => (Len(sockets') = Len(sockets) /\ ws' = ws /\ currentMode' = currentMode)
    ]_vars

\* two close events were handled in one session and one fallback was started
C3_Witness ==
  sessCloses = 2 /\ sessFallbacks = 1 /\ currentMode = "opus" /\ triedOpusFallback

\* C4: when the current socket's close event is handled in pcm mode and the
\* session (since the latest OFFSCREEN_START) has started no fallback yet, a
\* new socket in opus mode is created and becomes ws.
C4_FallbackInEverySession ==
  [][ ( /\ ws # 0
        /\ sockets[ws].state # "CLOSED"
        /\ sockets'[ws].state = "CLOSED"
        /\ currentMode = "pcm"
        /\ sessFallbacks = 0 )
      => ( /\ Len(sockets') = Len(sockets) + 1
           /\ sockets'[Len(sockets')].mode = "opus"
           /\ ws' = Len(sockets') )
    ]_vars

\* C5: a stop handled while a start was pending ends, once the start and the
\* stop have both finished, with no media stream, no live track, no open
\* audio context, no socket CONNECTING or OPEN and no timer.
C5_StopDuringStartEndsIdle ==
  (raceStop /\ PendingStarts = {} /\ stops = <<>>) =>
     /\ mediaStream = 0 /\ liveStreams = {}
     /\ audioContext = 0
     /\ \A c \in Ids : contexts[c] \notin {"suspended", "running"}
     /\ ws = 0 /\ Alive = {}
     /\ keepAliveTimer = 0

\* C6: a stopAll invoked right after another one ran to its end (no start,
\* no other event in between) runs to its end at once, has nothing left to
\* close, stop or clear, removes no connection, and leaves the state as the
\* first call left it.
C6_SecondStopChangesNothing ==
  [][ ( /\ requests' = requests + 1 /\ starts' = starts
        /\ stopState = "done" /\ last = "stopped" /\ stops = <<>> )
      => ( /\ ReleaseCalls = {}
           /\ Disconnected(edges) = edges
           /\ last' = "stopped"
           /\ UNCHANGED <<prog, plat, ctl, bytes>> )
    ]_vars

\* C7: after a stop was invoked with no start pending, no audio frame (PCM
\* chunk or recorder blob) is transmitted until the next OFFSCREEN_START.
C7_NoAudioAfterStop == ~raceStop => ~sentDuringStop

\* C8: a block delivered while ws is absent or not OPEN leaves pcmQueue and
\* pcmBytesPending as they were and adds nothing to what is sent or counted
\* as enqueued.
C8_DroppedWhenNotOpen ==
  [][ (last' = "block" /\ ~WsIsOpen)
      => UNCHANGED <<pcmQueue, pcmBytesPending, sentPcm, nextByte, nBlocks>>
    ]_vars

\* a block was just delivered in pcm mode while the socket that replaced the
\* previous one was still CONNECTING; the bytes queued before are all that is
\* queued
C8_Witness ==
  /\ last = "block"
  /\ currentMode = "pcm"
  /\ ws # 0 /\ sockets[ws].state = "CONNECTING"
  /\ nBlocks = 1 /\ pcmBytesPending = 1600 /\ sentPcm = <<>>

\* C9: whenever the keep-alive timer is set, the current socket is OPEN.
C9_TimerOnlyWhileOpen == keepAliveTimer # 0 => WsIsOpen

\* C10: at most one socket is CONNECTING or OPEN.
C10_AtMostOneAlive == Cardinality(Alive) <= 1

\* C11: once a stopAll invoked with no start pending has run to its end, the
\* pending audio queue is empty: pcmQueue holds nothing and pcmBytesPending
\* is 0.
C11_QueueEmptyAfterStop ==
  (stopState = "done" /\ ~raceStop) => (pcmQueue = <<>> /\ pcmBytesPending = 0)

\* C12: audio frames are transmitted in capture order: the PCM stream sent is
\* one increasing run of byte positions, and no recorder blob is transmitted
\* after a blob that was produced later.
C12_FramesInCaptureOrder ==
  /\ \A k \in 1..Len(sentPcm) :
       /\ sentPcm[k] # Padding => sentPcm[k].lo < sentPcm[k].hi
       /\ (k > 1 /\ sentPcm[k] # Padding /\ sentPcm[k - 1] # Padding)
             => sentPcm[k - 1].hi <= sentPcm[k].lo
  /\ ~blobReordered

\* C13: when several speaker tags share the highest word count of an event,
\* the speaker posted is the tied tag encountered first among the words.
C13_TieGoesToFirstSpeaker ==
  (lastOut # <<>> /\ lastOut[1].type # "STATUS_UPDATE") =>
     LET tags == SpeakerTags(lastEvent.words)
         best == {tags[i] : i \in {i \in DOMAIN tags :
                     \A j \in DOMAIN tags : CountOf(tags, tags[i]) >= CountOf(tags, tags[j])}}
         first == CHOOSE i \in DOMAIN tags :
                     tags[i] \in best /\ \A j \in 1..(i - 1) : tags[j] \notin best
     IN Cardinality(best) > 1 => lastOut[1].speaker = SpeakerName(tags[first])

\* C14: the speaker posted with a transcript is 'Speaker N' for a tag N that
\* occurs among the event's words and whose count is maximal; 'Unknown
\* Speaker' when no word carries a tag or there are no words.
C14_SpeakerHasMaximalCount ==
  (lastOut # <<>> /\ lastOut[1].type # "STATUS_UPDATE") =>
     LET tags == SpeakerTags(lastEvent.words)
         sp == lastOut[1].speaker
     IN IF tags = <<>> THEN sp = UnknownSpeaker
        ELSE /\ sp.name = "Speaker"
             /\ \E i \in DOMAIN tags : tags[i] = sp.tag
             /\ \A j \in DOMAIN tags : CountOf(tags, sp.tag) >= CountOf(tags, tags[j])

\* the words tagged 0, 0, 1 were resolved to Speaker 0
C14_Witness ==
  /\ lastOut # <<>> /\ lastOut[1].type = "DG_TRANSCRIPT_FINAL"
  /\ SpeakerTags(lastEvent.words) = <<0, 0, 1>>
  /\ lastOut[1].speaker = SpeakerName(0)

\* C15: the language posted with a transcript is a word-level tag of maximal
\* count when a word carries a language; otherwise the first of the event's
\* languages when there is one; otherwise 'en'.
C15_DominantLanguage ==
  /\ (lastOut # <<>> /\ lastOut[1].type # "STATUS_UPDATE") =>
     LET tags == LanguageTags(lastEvent.words)
         lang == lastOut[1].language
     IN IF tags # <<>>
        THEN /\ \E i \in DOMAIN tags : tags[i] = lang
             /\ \A j \in DOMAIN tags : CountOf(tags, lang) >= CountOf(tags, tags[j])
        ELSE IF lastEvent.languages # <<>> THEN lang = lastEvent.languages[1]
        ELSE lang = "en"
  /\ ( /\ lastOut # <<>> /\ lastOut[1].type # "STATUS_UPDATE"
       /\ lastEvent.languages # <<>>
       /\ LanguageTags(lastEvent.words) # <<>>
       /\ \A w \in DOMAIN lastEvent.words :
             lastEvent.words[w].language \in {"", lastEvent.languages[1]} )
     => lastOut[1].language = lastEvent.languages[1]

\* the word-level tags overrode a different sequence-level estimate
C15_Witness ==
  /\ lastOut # <<>> /\ lastOut[1].type # "STATUS_UPDATE"
  /\ LanguageTags(lastEvent.words) = <<"es", "en", "en">>
  /\ lastEvent.languages = <<"es">>
  /\ lastOut[1].language = "en"

\* C16: when several word-level language tags share the highest count, the
\* language posted is the tied tag encountered first among the words.
C16_TieGoesToFirstLanguage ==
  (lastOut # <<>> /\ lastOut[1].type # "STATUS_UPDATE") =>
     LET tags == LanguageTags(lastEvent.words)
         best == {tags[i] : i \in {i \in DOMAIN tags :
                     \A j \in DOMAIN tags : CountOf(tags, tags[i]) >= CountOf(tags, tags[j])}}
         first == CHOOSE i \in DOMAIN tags :
                     tags[i] \in best /\ \A j \in 1..(i - 1) : tags[j] \notin best
     IN Cardinality(best) > 1 => lastOut[1].language = tags[first]

\* C17: a Results event with non-empty text posts exactly one transcript
\* message, DG_TRANSCRIPT_FINAL exactly when is_final is true; the transcript
\* messages are posted in the arrival order of their events, at most one per
\* event.
C17_OneMessagePerEvent ==
  /\ ( /\ last = "message" /\ lastEvent.kind = "json"
       /\ lastEvent.type = T_Results /\ lastEvent.alt /\ lastEvent.transcript # "" )
     => ( /\ Len(lastOut) = 1
          /\ lastOut[1].type = IF lastEvent.is_final = "true"
                               THEN "DG_TRANSCRIPT_FINAL" ELSE "DG_TRANSCRIPT_INTERIM"
          /\ posted # <<>>
          /\ posted[Len(posted)] = [type |-> lastOut[1].type, n |-> arrived] )
  /\ \A k \in 1..Len(posted) :
       /\ posted[k].n <= arrived
       /\ k > 1 => posted[k - 1].n < posted[k].n

\* an interim and then a final event arrived and were posted in that order
C17_Witness ==
  /\ last = "message"
  /\ posted = <<[type |-> "DG_TRANSCRIPT_INTERIM", n |-> 1],
                [type |-> "DG_TRANSCRIPT_FINAL", n |-> 2]>>

\* C18: a Results event whose transcript is empty or missing posts nothing:
\* no transcript message and no status.
C18_EmptyTextNoOutput ==
  ( /\ lastEvent.kind = "json" /\ lastEvent.type = T_Results
    /\ lastEvent.transcript = "" )
  => (lastOut = <<>> /\ \A k \in 1..Len(posted) : posted[k].n # arrived)

\* a final event with words but no text was handled
C18_Witness ==
  /\ arrived >= 1
  /\ lastEvent.kind = "json" /\ lastEvent.type = T_Results /\ lastEvent.alt
  /\ lastEvent.transcript = "" /\ lastEvent.is_final = "true"
  /\ lastEvent.words # <<>>
  /\ lastOut = <<>>

\* C19: a payload that does not parse posts nothing and changes nothing of
\* the session (globals, sockets, audio graph, pending handlers, bytes), and
\* the message that follows it is handled as usual.
C19_MalformedIsDropped ==
  [][ /\ (arrived' = arrived + 1 /\ lastEvent'.kind = "malformed")
         => ( /\ lastOut' = <<>>
              /\ posted' = posted
              /\ UNCHANGED <<prog, plat, ctl, bytes>> )
      /\ ( /\ arrived' = arrived + 1 /\ lastEvent.kind = "malformed"
           /\ lastEvent'.kind = "json" /\ lastEvent'.type = T_Results
           /\ lastEvent'.alt /\ lastEvent'.transcript # "" )
         => (Len(lastOut') = 1 /\ Len(posted') = Len(posted) + 1)
    ]_vars

\* a malformed payload was handled while the connection was open, the
\* keep-alive timer set and audio bytes queued
C19_Witness ==
  /\ last = "message" /\ lastEvent.kind = "malformed"
  /\ WsIsOpen /\ keepAliveTimer # 0 /\ pcmBytesPending > 0
  /\ lastOut = <<>>

\* C20: a message whose type contains 'error' in any letter case, and a
\* socket error event, post one status and change nothing of the session;
\* the fallback flag is set, and an opus socket created, only by a step in
\* which a socket's close event is handled.
C20_ErrorsAreOnlyReported ==
  [][ /\ ( /\ arrived' = arrived + 1 /\ lastEvent'.kind = "json"
           /\ lastEvent'.type \in {T_Error, T_error} )
         => ( /\ Len(lastOut') = 1 /\ lastOut'[1].type = "STATUS_UPDATE"
              /\ posted' = posted
              /\ UNCHANGED <<prog, plat, ctl, bytes>> )
      /\ (last' = "error")
         => ( /\ Len(lastOut') = 1 /\ lastOut'[1].type = "STATUS_UPDATE"
              /\ UNCHANGED <<prog, plat, ctl, bytes, posted>> )
      /\ (triedOpusFallback' # triedOpusFallback \/ currentMode' # currentMode)
         => \/ \E s \in 1..Len(sockets) :
                 sockets[s].state # "CLOSED" /\ sockets'[s].state = "CLOSED"
            \/ (currentMode = "opus" /\ Len(sockets') = Len(sockets) + 1
                /\ sockets'[Len(sockets')].mode = "pcm")
    ]_vars

\* an 'Error' message and then a socket error event were handled, and the
\* session is as it was: pcm mode, socket open, timer set, no fallback
C20_Witness ==
  /\ last = "error"
  /\ lastEvent.kind = "json" /\ lastEvent.type = T_Error
  /\ WsIsOpen /\ keepAliveTimer # 0
  /\ currentMode = "pcm" /\ ~triedOpusFallback

\* C21: when getUserMedia rejects, the start invocation ends with its error
\* status posted ("failed"): that step builds no audio graph, opens no
\* connection and changes no global, and the invocation does nothing
\* afterwards; only a new OFFSCREEN_START begins another attempt.
C21_FailedAcquisitionEndsAttempt ==
  [][ \A i \in 1..Len(starts) :
        /\ ( /\ starts[i].pc = "getUserMedia" /\ starts'[i].pc # "getUserMedia"
             /\ mediaStream' # i )
           => ( /\ starts'[i] = [starts[i] EXCEPT !.pc = "failed"]
                /\ UNCHANGED <<prog, plat, stops, requests>> )
        /\ starts[i].pc = "failed" => starts'[i] = starts[i]
    ]_vars

\* one attempt failed at acquisition and left nothing behind; the other
\* OFFSCREEN_START built the graph and opened the connection
C21_Witness ==
  /\ Len(starts) = 2
  /\ starts[1] = [pc |-> "failed", ctx |-> 0, src |-> 0, proc |-> 0]
  /\ starts[2].pc = "done"
  /\ Len(sockets) = 1 /\ ws = 1 /\ mediaStream = 2

\* C22: once a start attempt has failed, the media stream it acquired has
\* its tracks stopped, the audio context it used is closed or was never
\* created, and the globals are those of the idle controller.
C22_FailedStartReleasesAll ==
  \A i \in 1..Len(starts) :
    starts[i].pc = "failed"
    => ( /\ i \notin liveStreams
         /\ \A c \in Ids : contexts[c] \in {"none", "closed"}
         /\ edges = {}
         /\ mediaStream = 0 /\ audioContext = 0 /\ ws = 0 )

\* C23: whichever release calls of stopAll throw, every call that does not
\* throw itself still takes effect (the source is disconnected, the tracks
\* are stopped, the socket is closed, the recorder is stopped), and the run
\* of stopAll that reaches line 85 leaves mediaStream, audioContext, ws and
\* keepAliveTimer cleared.
C23_ReleaseStepsAreIndependent ==
  [][ LET stopInvoked == requests' = requests + 1 /\ Len(starts') = Len(starts)
          stopEnds == \/ stopInvoked /\ audioContext = 0
                      \/ Len(stops') < Len(stops)
      IN /\ (stopInvoked /\ "sourceNode.disconnect" \notin threw')
            => edges' = Disconnected(edges)
         /\ stopEnds
            => ( /\ mediaStream' = 0 /\ audioContext' = 0
                 /\ ws' = 0 /\ keepAliveTimer' = 0
                 /\ "track.stop" \notin threw' => mediaStream \notin liveStreams'
                 /\ ("ws.close" \notin threw' /\ ws # 0)
                    => sockets'[ws].state \in {"CLOSING", "CLOSED"}
                 /\ "mediaRecorder.stop" \notin threw'
                    => mediaRecorder' # "recording" )
    ]_vars

\* a stopAll ran to its end although close() rejected and track.stop threw:
\* the socket was closed all the same and the globals are cleared
C23_Witness ==
  /\ last = "stopped"
  /\ threw = {"audioContext.close", "track.stop"}
  /\ liveStreams = {1} /\ contexts[1] = "running"
  /\ Len(sockets) = 1 /\ sockets[1].state = "CLOSING"
  /\ mediaStream = 0 /\ audioContext = 0 /\ ws = 0 /\ keepAliveTimer = 0

\* C24: for a source rate not below the target rate, downsampleBuffer
\* returns round(inputLength / (sourceRate / targetRate)) samples, halves
\* rounded up; with equal rates it returns the input block itself.
C24_DownsampledLength ==
  (conv.stage = "converted")
  => /\ 2 * sampleRate * Len(conv.down)
          <= 2 * Len(conv.input) * TARGET_SAMPLE_RATE + sampleRate
     /\ 2 * Len(conv.input) * TARGET_SAMPLE_RATE + sampleRate
          < 2 * sampleRate * (Len(conv.down) + 1)
     /\ sampleRate = TARGET_SAMPLE_RATE => conv.down = conv.input

\* 8 samples at 44.1 kHz became 3 (8 * 160 / 441 = 2.9)
C24_Witness ==
  /\ conv.stage = "converted" /\ sampleRate = 44100
  /\ Len(conv.input) = 8 /\ Len(conv.down) = 3

\* C25: at a hardware rate below the target rate, a block that reaches the
\* conversion makes downsampleBuffer throw: nothing is converted, and the
\* queue, the pending count and the bytes enqueued and sent are unchanged.
C25_UpsamplingEnqueuesNothing ==
  [][ (last' = "block" /\ sampleRate < TARGET_SAMPLE_RATE)
      => ( /\ conv'.stage \in {"skipped", "thrown"}
           /\ conv'.down = <<>> /\ conv'.pcm = <<>>
           /\ (WsIsOpen /\ currentMode = "pcm") => conv'.stage = "thrown"
           /\ UNCHANGED <<pcmQueue, pcmBytesPending, bytes, sockets>> )
    ]_vars

\* at 8 kHz a block of two samples reached downsampleBuffer on an open
\* connection and was thrown away
C25_Witness ==
  /\ sampleRate = 8000 /\ WsIsOpen
  /\ last = "block" /\ conv.stage = "thrown" /\ Len(conv.input) = 2
  /\ pcmQueue = <<>> /\ nextByte = 0

\* C26: floatTo16BitPCM writes two bytes per sample, low byte first; read
\* back as a signed 16-bit integer they are 32767 for samples of 1 and above,
\* -32768 for -1 and below, 0 for 0, and between them the sample scaled by
\* 32767 (32768 below zero) with its fraction dropped, never a wrapped value.
C26_ClampedInt16LittleEndian ==
  (conv.stage = "converted")
  => /\ Len(conv.pcm) = 2 * Len(conv.down)
     /\ \A i \in 1..Len(conv.down) :
          LET s == conv.down[i]
              lo == conv.pcm[2 * i - 1]
              hi == conv.pcm[2 * i]
              v == IF hi >= 128 THEN lo + 256 * hi - 65536 ELSE lo + 256 * hi
          IN /\ lo \in 0..255 /\ hi \in 0..255
             /\ v \in -32768..32767
             /\ s.n >= s.d => v = 32767
             /\ s.n <= 0 - s.d => v = -32768
             /\ s.n = 0 => v = 0
             /\ (0 < s.n /\ s.n < s.d)
                => (v * s.d <= 32767 * s.n /\ 32767 * s.n < (v + 1) * s.d)
             /\ (0 - s.d < s.n /\ s.n < 0)
                => ((v - 1) * s.d < 32768 * s.n /\ 32768 * s.n <= v * s.d)

\* at 16 kHz the samples -0.5, 0.5, 1.5 and -1 were written as -16384
\* (00 c0), 16383 (ff 3f), 32767 (ff 7f) and -32768 (00 80)
C26_Witness ==
  /\ conv.stage = "converted" /\ sampleRate = TARGET_SAMPLE_RATE
  /\ conv.input = <<Sample(-1, 2), Sample(1, 2), Sample(3, 2), Sample(-2, 2)>>
  /\ conv.pcm = <<0, 192, 255, 63, 255, 127, 0, 128>>

\* C27: a PCM chunk is transmitted only on a connection opened in pcm mode,
\* and a recorder blob only on a connection opened in opus mode.
C27_FramesMatchEncoding ==
  [][ /\ sentPcm' # sentPcm => (ws # 0 /\ sockets[ws].mode = "pcm")
      /\ \A k \in 1..Len(blobReads) :
           ( /\ Len(blobReads') = Len(blobReads) - 1
             /\ \A j \in 1..Len(blobReads') :
                  blobReads'[j].sock = RemoveAt(blobReads, k)[j].sock
             /\ sockets[blobReads[k].sock].state = "OPEN" )
           => sockets[blobReads[k].sock].mode = "opus"
    ]_vars

\* C28: the close event of a connection that is not the current one leaves
\* the current session as it is: the keep-alive timer, the fallback flag,
\* the mode, the current connection and its state are unchanged.
C28_StaleCloseHasNoEffect ==
  [][ \A s \in 1..Len(sockets) :
        ( /\ sockets[s].state # "CLOSED" /\ sockets'[s].state = "CLOSED"
          /\ ws # 0 /\ ws # s )
        => ( /\ keepAliveTimer' = keepAliveTimer
             /\ triedOpusFallback' = triedOpusFallback
             /\ currentMode' = currentMode
             /\ ws' = ws
             /\ sockets'[ws] = sockets[ws] )
    ]_vars

\* C29: a keep-alive tick sends only when the current connection is OPEN;
\* and if from some time on the current connection is OPEN for good (no stop
\* is ever requested), KeepAlive messages are sent again and again.
C29_KeepAlivesContinue ==
  /\ [][keepAliveBit' # keepAliveBit => WsIsOpen]_vars
  /\ (<>[]WsIsOpen) => []<><<keepAliveBit' # keepAliveBit>>_vars

\* C30: every chunk enqueuePcm passes to ws.send holds exactly
\* PCM_TARGET_CHUNK_BYTES queued bytes, none of them padding, whatever the
\* byte length of the block enqueued; the chunks are what is sent.
C30_ChunksAreFull ==
  [][ (last' = "block" /\ nBlocks' = nBlocks + 1)
      => LET r == EnqueuePcm(pcmQueue, pcmBytesPending, nextByte' - nextByte)
         IN /\ \A i \in 1..Len(r.chunks) :
                 /\ \A k \in 1..Len(r.chunks[i]) : r.chunks[i][k] # Padding
                 /\ ChunkBytes(r.chunks[i]) = PCM_TARGET_CHUNK_BYTES
            /\ sentPcm' = ConcatChunks(sentPcm, r.chunks)
            /\ pcmBytesPending' < PCM_TARGET_CHUNK_BYTES
    ]_vars

\* 86 bytes were queued and a block of 7000 bytes followed: two chunks were
\* sent, the first filled from both blocks, and 686 bytes stay queued
C30_Witness ==
  /\ last = "block" /\ nBlocks = 2 /\ nextByte = 7086
  /\ sentPcm = <<Range(0, 6400)>>
  /\ pcmQueue = <<Range(6400, 7086)>> /\ pcmBytesPending = 686

\* C31: between two calls of enqueuePcm fewer than PCM_TARGET_CHUNK_BYTES
\* bytes are pending.
C31_LessThanAChunkPending == pcmBytesPending < PCM_TARGET_CHUNK_BYTES

\* a block of more than two chunks was enqueued on top of queued bytes and
\* drained down to less than a chunk
C31_Witness ==
  /\ last = "block" /\ nextByte >= 7000 + 1600
  /\ Len(sentPcm) = 1 /\ sentPcm[1].hi >= 2 * PCM_TARGET_CHUNK_BYTES
  /\ pcmBytesPending > 0 /\ pcmBytesPending < PCM_TARGET_CHUNK_BYTES

\* C34: between two calls of enqueuePcm, pcmBytesPending is the sum of the
\* byte lengths of the buffers in pcmQueue and is not negative, and the
\* queue holds, in order and without gap, exactly the last pcmBytesPending
\* bytes enqueued: the remainder of a split buffer is at its head.
C34_PendingIsQueueLength ==
  /\ pcmBytesPending >= 0
  /\ pcmBytesPending = ChunkBytes(pcmQueue)
  /\ \A k \in 1..Len(pcmQueue) : pcmQueue[k] # Padding
  /\ Concat(<<>>, pcmQueue) =
       IF pcmBytesPending = 0 THEN <<>>
       ELSE <<Range(nextByte - pcmBytesPending, nextByte)>>

\* a buffer of 7000 bytes was split twice; its remainder heads the queue,
\* followed by a buffer enqueued later
C34_Witness ==
  /\ Len(pcmQueue) = 2
  /\ pcmQueue[1] = Range(6400, 7000)
  /\ pcmQueue[2] = Range(7000, 7086)
  /\ pcmBytesPending = 686

\* C35: when the hardware rate is above TARGET_SAMPLE_RATE, output sample i
\* of downsampleBuffer (counted from 0) is the average of the input samples
\* at [round(i * ratio), min(round((i + 1) * ratio), input length)), a
\* window that holds at least one sample: the windows follow one another
\* without gap or overlap, and no output is computed with the divisor 1
\* that stands in for a count of zero.
C35_WindowsAreNotEmpty ==
  (conv.stage = "converted" /\ sampleRate > TARGET_SAMPLE_RATE) =>
    \A i \in 1..Len(conv.down) :
      LET lo == MathRound((i - 1) * sampleRate, TARGET_SAMPLE_RATE)
          hi == Min(MathRound(i * sampleRate, TARGET_SAMPLE_RATE), Len(conv.input))
      IN /\ lo < hi
         /\ conv.down[i] = Sample(Accum(conv.input, lo, hi),
                                  conv.input[1].d * (hi - lo))

\* eight samples at 48000 Hz: three outputs, the last window [6, 9) is cut
\* at the input's length and averages the samples 6 and 7
C35_Witness ==
  /\ conv.stage = "converted" /\ sampleRate = 48000
  /\ conv.input = Ramp(8)
  /\ Len(conv.down) = 3
  /\ conv.down[3] = Sample(-4, 4)

C32_PostedBlockIsAFreshCopy ==
  \A i \in 1..Len(portMessages) :
    /\ portMessages[i].buf # 0
    /\ Contents(portMessages[i].buf) = portMessages[i].snap
    /\ \A j \in 1..Len(portMessages) :
         portMessages[i].buf = portMessages[j].buf => i = j

\* two messages are in flight and the platform has reused its buffer for
\* other samples since each was posted
C32_Witness ==
  /\ Len(portMessages) = 2
  /\ channel0 # NoChannel
  /\ portMessages[1].snap # portMessages[2].snap
  /\ portMessages[2].snap # channel0.samples

\* C36: the segments of translationSegments, and the texts of the speaker
\* sections displayed, are in the order in which their DG_TRANSCRIPT_FINAL
\* messages arrived.
C36_FinalsInArrivalOrder ==
  /\ \A i, j \in 1..Len(translationSegments) :
       i < j => translationSegments[i].text < translationSegments[j].text
  /\ \A g, h \in 1..Len(transcriptEl.sections) :
       \A j \in 1..Len(transcriptEl.sections[g].text),
          k \in 1..Len(transcriptEl.sections[h].text) :
         (g < h \/ (g = h /\ j < k)) =>
           transcriptEl.sections[g].text[j] < transcriptEl.sections[h].text[k]

\* C37: a displayed interim arrived after every final rendered so far, and
\* an interim on display is replaced only by one that arrived later.
C37_InterimIsSuperseded ==
  /\ [](transcriptEl.interim # 0 =>
          \A i \in 1..Len(translationSegments) :
            translationSegments[i].text < transcriptEl.interim)
  /\ [][(transcriptEl.interim # 0 /\ transcriptEl'.interim # 0) =>
          transcriptEl'.interim >= transcriptEl.interim]_vars

\* C38: the groups of groupSegmentsBySpeaker are consecutive runs of the
\* list that cover it in order (group g starts where group g - 1 ends and
\* holds its segments' texts, all of the group's speaker); inside a group
\* each segment is less than 5000 ms after the one before it; where one
\* group ends and the next begins the speaker changes or the gap is 5000 ms
\* or more.
C38_GroupsAreRunsOfTheList ==
  LET segments == translationSegments
      groups == GroupSegmentsBySpeaker(segments)
      start[g \in 1..Len(groups)] ==
        IF g = 1 THEN 1 ELSE start[g - 1] + Len(groups[g - 1].text)
  IN /\ (groups = <<>>) = (segments = <<>>)
     /\ groups # <<>> =>
          start[Len(groups)] + Len(groups[Len(groups)].text) = Len(segments) + 1
     /\ \A g \in 1..Len(groups) :
          /\ groups[g].text # <<>>
          /\ \A j \in 1..Len(groups[g].text) :
               /\ segments[start[g] + j - 1].text = groups[g].text[j]
               /\ segments[start[g] + j - 1].speaker = groups[g].speaker
               /\ j > 1 => segments[start[g] + j - 1].timestamp
                             - segments[start[g] + j - 2].timestamp < 5000
          /\ g > 1 =>
               \/ segments[start[g]].speaker # segments[start[g] - 1].speaker
               \/ segments[start[g]].timestamp
                    - segments[start[g] - 1].timestamp >= 5000

\* three segments of one speaker, 4999 ms and then 5000 ms apart, are
\* displayed as a section of two texts and a section of one
C38_Witness ==
  /\ Len(translationSegments) = 3
  /\ \A i \in 1..3 : translationSegments[i].speaker = "Speaker 0"
  /\ translationSegments[2].timestamp - translationSegments[1].timestamp = 4999
  /\ translationSegments[3].timestamp - translationSegments[2].timestamp = 5000
  /\ Len(transcriptEl.sections) = 2
  /\ Len(transcriptEl.sections[1].text) = 2

\* C39: no text that was in a speaker section when Clear was clicked is in a
\* speaker section afterwards.
C39_ClearedNotShownAgain ==
  \A g \in 1..Len(transcriptEl.sections) :
    \A j \in 1..Len(transcriptEl.sections[g].text) :
      transcriptEl.sections[g].text[j] \notin clearedTexts

\* C40: 'Running' is posted for a START_TRANSCRIBE request only if its start
\* did not fail in the offscreen document, and no 'Running' for a request
\* follows an error status for that request.
C40_RunningOnlyIfStarted ==
  \A j \in 1..Len(statuses) :
    statuses[j].text = "Running" =>
      /\ startRequests[statuses[j].request].offscreen # "failed"
      /\ \A i \in 1..(j - 1) :
           ~(statuses[i].text = "Error" /\ statuses[i].request = statuses[j].request)
====
